---- MODULE Spec2Model ----
(***************************************************************************)
(* Medical triage rule interpreter: the lexer (lexer.py), the              *)
(* recursive-descent parser (triage_parser.py) and the tree-walking        *)
(* executor (executor.py).                                                 *)
(*                                                                         *)
(* SpecLex    the lexer: Lexer(text).tokenize(), one step per call of      *)
(*            Lexer.get_next_token.                                        *)
(* Spec       the executor: load_data, then execute, one step per          *)
(*            (rule, row) visit of the double loop of Executor.execute.    *)
(* SpecParse  the parser: a token list is produced phrase by phrase, EOF   *)
(*            is appended, and Parser.parse is applied to it.              *)
(***************************************************************************)
EXTENDS Integers, Sequences, FiniteSets, TLC

VARIABLES
    ast,          \* Executor.ast: the rule script (sequence of RuleNode)
    data,         \* Executor.data: <<>> until load_data, then the table
    loaded,       \* Executor.data is not None
    rows,         \* results / Executor.all_rows: one list of row dicts
    count_cache,  \* Executor.count_cache: id(condition) -> count
    pc,           \* position in Executor.execute
    ri,           \* index of rule_node in self.ast.rules
    wi,           \* index of row in results
    warnings,     \* the "Runtime Warning" lines printed: <<rule, row>>
    visits,       \* history: the (rule, row) pairs visited, in order
    scans,        \* history: the COUNT keys scanned during the current rule
    asked,        \* history: the COUNT keys evaluated during the current rule
    scanned_on,   \* history: key -> the table as it was when the key was scanned
    last,         \* history: what the latest (rule, row) visit did
    results_df,   \* the DataFrame returned by execute, <<>> until then
    tokens,       \* the token list Lexer.tokenize is building / Parser.tokens
    source,       \* the kind of script text being tokenized
    emitted,      \* the number of phrases tokenized
    stage,        \* "lexing", "lexed" (EOF appended) or "parsed"
    result,       \* what Parser(tokens).parse() returned or raised
    text,         \* Lexer.text: the script, a sequence of characters
    lexer,        \* Lexer.pos, Lexer.line, Lexer.col
    lexed,        \* the local list tokens of Lexer.tokenize
    lex_stage,    \* "lexing", "done" (EOF appended) or "error" (LexerError)
    got           \* history: the latest call of get_next_token

evars == <<ast, data, loaded, rows, count_cache, pc, ri, wi, warnings, visits,
           scans, asked, scanned_on, last, results_df>>

pvars == <<tokens, source, emitted, stage, result>>

lvars == <<text, lexer, lexed, lex_stage, got>>

vars == <<evars, pvars, lvars>>

-----------------------------------------------------------------------------
(* Bounds of the model *)

MaxRows == 2
MaxRules == 2
MaxPhrases == 7
MaxCondition == 8
MaxTokens == 3
MaxChars == 4
MaxPieces == 8

-----------------------------------------------------------------------------
(* Dynamic values.  A value is <<tag, payload>>; strings are represented by *)
(* their rank in lexicographic order, booleans by 0/1 as Python's bool is   *)
(* a subclass of int.  Absent marks a key that is not in the row dict.      *)

Null == <<"null", 0>>
Absent == <<"absent", 0>>
Num(n) == <<"num", n>>
Str(s) == <<"str", s>>
Bool(b) == <<"bool", IF b THEN 1 ELSE 0>>

isna(v) == v[1] = "null"

IsNumeric(v) == v[1] \in {"num", "bool"}

CmpOps == {"GT", "LT", "GTE", "LTE", "EQ", "NEQ"}

\* Python's ordering of two operands of comparable type.
OrderOp(op, a, b) ==
    CASE op = "GT" -> a > b
      [] op = "LT" -> a < b
      [] op = "GTE" -> a >= b
      [] op = "LTE" -> a <= b
      [] op = "EQ" -> a = b
      [] op = "NEQ" -> a # b

\* left_val <op> right_val in Python, both operands not null: numbers and
\* booleans compare numerically, strings lexicographically; a string against
\* a number is unequal under == and != and a TypeError under the orderings.
PyCompare(op, l, r) ==
    IF (IsNumeric(l) /\ IsNumeric(r)) \/ (l[1] = "str" /\ r[1] = "str")
    THEN [err |-> FALSE, val |-> OrderOp(op, l[2], r[2])]
    ELSE IF op = "EQ" THEN [err |-> FALSE, val |-> FALSE]
    ELSE IF op = "NEQ" THEN [err |-> FALSE, val |-> TRUE]
    ELSE [err |-> TRUE, val |-> FALSE]

-----------------------------------------------------------------------------
(* AST node classes *)

RuleNode(condition, then_actions, has_else, else_actions) ==
    [type |-> "RuleNode", condition |-> condition, then_actions |-> then_actions,
     has_else |-> has_else, else_actions |-> else_actions]

SetActionNode(identifier, value_node) ==
    [type |-> "SetActionNode", identifier |-> identifier, value_node |-> value_node]

BinaryOpNode(left, op, right) ==
    [type |-> "BinaryOpNode", left |-> left, op |-> op, right |-> right]

UnaryOpNode(op, operand) ==
    [type |-> "UnaryOpNode", op |-> op, operand |-> operand]

ComparisonNode(left_identifier, op, right_value) ==
    [type |-> "ComparisonNode", left_identifier |-> left_identifier, op |-> op,
     right_value |-> right_value]

IsNullNode(identifier, is_not) ==
    [type |-> "IsNullNode", identifier |-> identifier, is_not |-> is_not]

\* key stands for id(node.condition): the identity of the condition object
CountNode(condition, key) ==
    [type |-> "CountNode", condition |-> condition, key |-> key]

ValueNode(token_type, value) ==
    [type |-> "ValueNode", token_type |-> token_type, value |-> value]

IdentifierNode(name) ==
    [type |-> "IdentifierNode", name |-> name]

-----------------------------------------------------------------------------
(* Tokens (lexer.py).  A token is its type and its value; line and column   *)
(* are not used by the parser except in its error messages.                 *)

Token(type, value) == [type |-> type, value |-> value]

Keywords ==
    {"IF", "THEN", "ELSE", "SET", "AND", "OR", "NOT", "IS", "NULL", "COUNT", "WHERE"}

Punctuation == {"GT", "LT", "GTE", "LTE", "EQ", "NEQ", "ASSIGN", "LPAREN", "RPAREN"}

TokenTypes ==
    Keywords \cup Punctuation \cup {"NUMBER", "STRING", "BOOLEAN", "IDENTIFIER",
                                    "NEWLINE", "EOF"}

\* get_id_or_keyword: Token(token_type, result.upper())
Keyword(k) == Token(k, k)

\* get_next_token: the operators and the parentheses carry their text
Punct(t) ==
    Token(t, CASE t = "GT" -> ">" [] t = "LT" -> "<" [] t = "GTE" -> ">="
               [] t = "LTE" -> "<=" [] t = "EQ" -> "==" [] t = "NEQ" -> "!="
               [] t = "ASSIGN" -> "=" [] t = "LPAREN" -> "(" [] t = "RPAREN" -> ")")

\* get_string("'"): a quoted column name
Ident(name) == Token("IDENTIFIER", name)

\* get_number, get_string('"'), TRUE / FALSE
Number(n) == Token("NUMBER", Num(n))
String(s) == Token("STRING", Str(s))
Boolean(b) == Token("BOOLEAN", Bool(b))

NewlineToken == Token("NEWLINE", "\n")
EOFToken == Token("EOF", "None")

-----------------------------------------------------------------------------
(* The lexer (lexer.py).  The text is a sequence of characters; the lexer   *)
(* state lx is self.pos (the number of characters consumed), self.line and  *)
(* self.col.  A method returns the state it leaves and the token it         *)
(* returns or the LexerError it raises.                                     *)

NoChar == "None"

Digits == {"0", "1", "2", "3", "4", "5", "6", "7", "8", "9"}

LowerCase ==
    <<"a", "b", "c", "d", "e", "f", "g", "h", "i", "j", "k", "l", "m",
      "n", "o", "p", "q", "r", "s", "t", "u", "v", "w", "x", "y", "z">>

UpperCase ==
    <<"A", "B", "C", "D", "E", "F", "G", "H", "I", "J", "K", "L", "M",
      "N", "O", "P", "Q", "R", "S", "T", "U", "V", "W", "X", "Y", "Z">>

Letters == {LowerCase[k] : k \in 1..26} \cup {UpperCase[k] : k \in 1..26}

\* str.upper on one character
upper(c) ==
    IF \E k \in 1..26 : LowerCase[k] = c
    THEN UpperCase[CHOOSE k \in 1..26 : LowerCase[k] = c]
    ELSE c

\* the keys of RESERVED_KEYWORDS, spelled
Spelling(word) ==
    CASE word = "IF" -> <<"I", "F">>
      [] word = "THEN" -> <<"T", "H", "E", "N">>
      [] word = "ELSE" -> <<"E", "L", "S", "E">>
      [] word = "SET" -> <<"S", "E", "T">>
      [] word = "AND" -> <<"A", "N", "D">>
      [] word = "OR" -> <<"O", "R">>
      [] word = "NOT" -> <<"N", "O", "T">>
      [] word = "IS" -> <<"I", "S">>
      [] word = "NULL" -> <<"N", "U", "L", "L">>
      [] word = "TRUE" -> <<"T", "R", "U", "E">>
      [] word = "FALSE" -> <<"F", "A", "L", "S", "E">>
      [] word = "COUNT" -> <<"C", "O", "U", "N", "T">>
      [] word = "WHERE" -> <<"W", "H", "E", "R", "E">>

\* RESERVED_KEYWORDS.get(result.upper(), TokenType.IDENTIFIER): the reserved
\* word that result spells, or "IDENTIFIER"
RESERVED_KEYWORDS(name) ==
    LET spelled == [k \in 1..Len(name) |-> upper(name[k])]
        words == {w \in Keywords \cup {"TRUE", "FALSE"} : Spelling(w) = spelled}
    IN IF words = {} THEN "IDENTIFIER" ELSE CHOOSE w \in words : TRUE

LexToken(type, value, line, col) ==
    [type |-> type, value |-> value, line |-> line, col |-> col]

\* return token / raise LexerError(message, line, col)
LexReturn(lx, token) == [lx |-> lx, token |-> token, raised |-> FALSE]
LexRaise(lx, message, line, col) ==
    [lx |-> lx, token |-> LexToken("LexerError", message, line, col), raised |-> TRUE]

\* self.current_char
current_char(input, lx) == IF lx.pos < Len(input) THEN input[lx.pos + 1] ELSE NoChar

\* Lexer.advance
advance(input, lx) ==
    LET at_newline == current_char(input, lx) = "\n"
        line == IF at_newline THEN lx.line + 1 ELSE lx.line
        col == IF at_newline THEN 0 ELSE lx.col
    IN [pos |-> lx.pos + 1, line |-> line,
        col |-> IF lx.pos + 1 < Len(input) THEN col + 1 ELSE col]

RECURSIVE skip_comment(_, _)
\* while self.current_char is not None and self.current_char != '\n'
skip_comment(input, lx) ==
    IF current_char(input, lx) \in {NoChar, "\n"} THEN lx
    ELSE skip_comment(input, advance(input, lx))

RECURSIVE skip_whitespace(_, _)
skip_whitespace(input, lx) ==
    IF current_char(input, lx) \in {" ", "\t", "\r"}
    THEN skip_whitespace(input, advance(input, lx))
    ELSE IF current_char(input, lx) = "#"
    THEN skip_whitespace(input, skip_comment(input, lx))
    ELSE lx

RECURSIVE number_chars(_, _, _)
\* while current_char is a digit or '.': result += current_char
number_chars(input, lx, chars) ==
    IF current_char(input, lx) \in Digits \cup {"."}
    THEN number_chars(input, advance(input, lx), Append(chars, current_char(input, lx)))
    ELSE [lx |-> lx, chars |-> chars]

RECURSIVE decimal(_)
\* int() of a string of digits
decimal(chars) ==
    IF Len(chars) = 0 THEN 0
    ELSE 10 * decimal(SubSeq(chars, 1, Len(chars) - 1))
         + (CHOOSE d \in 0..9 : <<"0", "1", "2", "3", "4", "5", "6", "7", "8", "9">>[d + 1]
                                  = chars[Len(chars)])

RECURSIVE significant(_)
\* the digits of a fraction without the trailing zeros
significant(chars) ==
    IF Len(chars) > 0 /\ chars[Len(chars)] = "0"
    THEN significant(SubSeq(chars, 1, Len(chars) - 1))
    ELSE chars

\* float() of digits with one '.': the whole part and the fraction
float(chars) ==
    LET dot == CHOOSE k \in 1..Len(chars) : chars[k] = "."
    IN <<"float", decimal(SubSeq(chars, 1, dot - 1)),
         significant(SubSeq(chars, dot + 1, Len(chars)))>>

get_number(input, lx) ==
    LET start_col == lx.col
        s == number_chars(input, lx, <<>>)
        dots == Cardinality({k \in 1..Len(s.chars) : s.chars[k] = "."})
    IN IF dots > 1 THEN LexRaise(s.lx, "Invalid number", s.lx.line, start_col)
       ELSE LexReturn(s.lx,
                LexToken("NUMBER",
                         IF dots = 1 THEN float(s.chars) ELSE Num(decimal(s.chars)),
                         s.lx.line, start_col))

RECURSIVE string_chars(_, _, _, _)
\* while current_char is not None and current_char != quote_char
string_chars(input, lx, quote_char, chars) ==
    IF current_char(input, lx) \in {NoChar, quote_char}
    THEN [lx |-> lx, chars |-> chars]
    ELSE string_chars(input, advance(input, lx), quote_char,
                      Append(chars, current_char(input, lx)))

get_string(input, lx, quote_char) ==
    LET start_col == lx.col
        s == string_chars(input, advance(input, lx), quote_char, <<>>)
        closed == advance(input, s.lx)
    IN IF current_char(input, s.lx) = NoChar
       THEN LexRaise(s.lx, "Unterminated string", s.lx.line, start_col)
       ELSE LexReturn(closed,
                LexToken(IF quote_char = "'" THEN "IDENTIFIER" ELSE "STRING",
                         s.chars, closed.line, start_col))

RECURSIVE word_chars(_, _, _)
\* while current_char.isalnum() or current_char == '_'
word_chars(input, lx, chars) ==
    IF current_char(input, lx) \in Letters \cup Digits \cup {"_"}
    THEN word_chars(input, advance(input, lx), Append(chars, current_char(input, lx)))
    ELSE [lx |-> lx, chars |-> chars]

get_id_or_keyword(input, lx) ==
    LET start_col == lx.col
        s == word_chars(input, lx, <<>>)
        token_type == RESERVED_KEYWORDS(s.chars)
    IN IF token_type \in {"TRUE", "FALSE"}
       THEN LexReturn(s.lx, LexToken("BOOLEAN", Bool(token_type = "TRUE"),
                                     s.lx.line, start_col))
       ELSE IF token_type = "IDENTIFIER"
       THEN LexRaise(s.lx, "Invalid or unquoted identifier", s.lx.line, start_col)
       ELSE LexReturn(s.lx, LexToken(token_type, token_type, s.lx.line, start_col))

\* mutant: an operator is one character, whatever follows it
operator_token_NoLookahead(input, lx) ==
    LET c == current_char(input, lx)
        after == advance(input, lx)
        type == CASE c = ">" -> "GT" [] c = "<" -> "LT" [] c = "=" -> "ASSIGN"
                  [] c = "!" -> "NEQ"
    IN LexReturn(after, LexToken(type, Punct(type).value, after.line, lx.col))

\* the four "if self.current_char == ..." blocks of the operators
operator_token(input, lx) ==
    LET c == current_char(input, lx)
        start_col == lx.col
        after == advance(input, lx)
        both == advance(input, after)
        two == CASE c = ">" -> "GTE" [] c = "<" -> "LTE" [] c = "=" -> "EQ"
                 [] c = "!" -> "NEQ"
        one == CASE c = ">" -> "GT" [] c = "<" -> "LT" [] c = "=" -> "ASSIGN"
                 [] c = "!" -> "none"
    IN IF current_char(input, after) = "="
       THEN LexReturn(both, LexToken(two, Punct(two).value, both.line, start_col))
       ELSE IF c = "!"
       THEN LexRaise(after, "Invalid character '!'", after.line, start_col)
       ELSE LexReturn(after, LexToken(one, Punct(one).value, after.line, start_col))

RECURSIVE next_token(_, _)
\* Lexer.get_next_token
next_token(input, lx) ==
    LET c == current_char(input, lx)
        start_col == lx.col
        after == advance(input, lx)
    IN IF c = NoChar THEN LexReturn(lx, LexToken("EOF", "None", lx.line, lx.col))
       ELSE IF c = "\n"
       THEN LexReturn(after, LexToken("NEWLINE", "\n", lx.line, lx.col))
       ELSE IF c \in {" ", "\t", "\r", "#"}
       THEN next_token(input, skip_whitespace(input, lx))
       ELSE IF c \in Digits THEN get_number(input, lx)
       ELSE IF c = "\"" THEN get_string(input, lx, "\"")
       ELSE IF c = "'" THEN get_string(input, lx, "'")
       ELSE IF c \in Letters THEN get_id_or_keyword(input, lx)
       ELSE IF c \in {">", "<", "=", "!"} THEN operator_token(input, lx)
       ELSE IF c = "("
       THEN LexReturn(after, LexToken("LPAREN", "(", after.line, start_col))
       ELSE IF c = ")"
       THEN LexReturn(after, LexToken("RPAREN", ")", after.line, start_col))
       ELSE LexRaise(after, "Invalid character", after.line, start_col)

\* the characters of the texts tokenized
LexAlphabet == {">", "<", "=", "!", "1", " ", "\n", "#", "'", "(", "o", "R", "$"}

Texts == UNION {[1..n -> LexAlphabet] : n \in 0..MaxChars}

NoToken == [before |-> [pos |-> 0, line |-> 1, col |-> 1],
            token |-> LexToken("none", "none", 0, 0), raised |-> FALSE]

-----------------------------------------------------------------------------
(* The parser (triage_parser.py).  Each parse method takes the token list   *)
(* and self.pos (counted from 1) and returns either the node built and the  *)
(* new position, or the exception raised and the position it was raised at. *)
(* Past the end of the list current_token is None, and reading its type     *)
(* raises AttributeError instead of ParserError.                            *)

NoNode == [type |-> "None"]

Good(node, pos) == [err |-> "", msg |-> "", pos |-> pos, node |-> node]

Fail(toks, pos, msg) ==
    IF pos <= Len(toks)
    THEN [err |-> "ParserError", msg |-> msg, pos |-> pos, node |-> NoNode]
    ELSE [err |-> "AttributeError", msg |-> "NoneType", pos |-> pos, node |-> NoNode]

NoResult == [err |-> "", msg |-> "not parsed", pos |-> 0, node |-> NoNode]

\* self.current_token.type
TypeAt(toks, pos) == IF pos <= Len(toks) THEN toks[pos].type ELSE "None"

consume(toks, pos, expected_token_type) ==
    IF TypeAt(toks, pos) = expected_token_type
    THEN Good(toks[pos], pos + 1)
    ELSE Fail(toks, pos, "Expected " \o expected_token_type)

\* while self.current_token.type == TokenType.NEWLINE: newline_count += 1
RECURSIVE newline_count(_, _)

newline_count(toks, pos) ==
    IF TypeAt(toks, pos) = "NEWLINE" THEN 1 + newline_count(toks, pos + 1) ELSE 0

op_types == {"GT", "LT", "GTE", "LTE", "EQ", "NEQ"}

value_types == {"NUMBER", "STRING", "BOOLEAN", "IDENTIFIER"}

value_token_types == {"STRING", "NUMBER", "BOOLEAN", "NULL"}

\* ValueNode(token): the token's type and value
ValueOf(token) == ValueNode(token.type, token.value)

\* an exception raised by a call propagates; the rest of the method runs only
\* when the call returns
AndThen(r, rest(_)) == IF r.err # "" THEN r ELSE rest(r)

RECURSIVE parse_condition(_, _)
RECURSIVE condition_loop(_, _, _)
RECURSIVE parse_rule(_, _, _)
RECURSIVE action_loop(_, _, _, _)

\* the right side of a comparison: a literal value or another column
right_node(token) ==
    IF token.type = "IDENTIFIER" THEN IdentifierNode(token.value) ELSE ValueOf(token)

\* mutant: NULL is one of the value types after a comparison operator
parse_atom_NullValue(toks, pos) ==
    IF TypeAt(toks, pos) = "LPAREN"
    THEN AndThen(parse_condition(toks, pos + 1), LAMBDA node :
         AndThen(consume(toks, node.pos, "RPAREN"), LAMBDA rp :
         Good(node.node, rp.pos)))
    ELSE IF TypeAt(toks, pos) = "IDENTIFIER"
    THEN LET identifier_node == IdentifierNode(toks[pos].value) IN
         IF TypeAt(toks, pos + 1) = "IS"
         THEN LET is_not == TypeAt(toks, pos + 2) = "NOT" IN
              AndThen(consume(toks, IF is_not THEN pos + 3 ELSE pos + 2, "NULL"),
                      LAMBDA nl : Good(IsNullNode(identifier_node, is_not), nl.pos))
         ELSE IF TypeAt(toks, pos + 1) \in op_types
         THEN IF TypeAt(toks, pos + 2) \in value_types \cup {"NULL"}
              THEN Good(ComparisonNode(identifier_node, TypeAt(toks, pos + 1),
                                       right_node(toks[pos + 2])), pos + 3)
              ELSE Fail(toks, pos + 2, "Expected value after operator")
         ELSE Fail(toks, pos + 1, "Unexpected token in expression")
    ELSE Fail(toks, pos, "Unexpected token in expression")

parse_atom(toks, pos) ==
    IF TypeAt(toks, pos) = "LPAREN"
    THEN \* Case 1: ( condition )
         AndThen(parse_condition(toks, pos + 1), LAMBDA node :
         AndThen(consume(toks, node.pos, "RPAREN"), LAMBDA rp :
         Good(node.node, rp.pos)))
    ELSE IF TypeAt(toks, pos) = "IDENTIFIER"
    THEN LET identifier_node == IdentifierNode(toks[pos].value) IN
         IF TypeAt(toks, pos + 1) = "IS"
         THEN \* Sub-case 2a: IDENTIFIER IS (NOT)? NULL
              LET is_not == TypeAt(toks, pos + 2) = "NOT" IN
              AndThen(consume(toks, IF is_not THEN pos + 3 ELSE pos + 2, "NULL"),
                      LAMBDA nl : Good(IsNullNode(identifier_node, is_not), nl.pos))
         ELSE IF TypeAt(toks, pos + 1) \in op_types
         THEN \* Sub-case 2b: IDENTIFIER <op> VALUE
              IF TypeAt(toks, pos + 2) \in value_types
              THEN Good(ComparisonNode(identifier_node, TypeAt(toks, pos + 1),
                                       right_node(toks[pos + 2])), pos + 3)
              ELSE Fail(toks, pos + 2, "Expected value after operator")
         ELSE Fail(toks, pos + 1, "Unexpected token in expression")
    ELSE Fail(toks, pos, "Unexpected token in expression")

parse_expression(toks, pos) ==
    IF TypeAt(toks, pos) = "NOT"
    THEN AndThen(parse_atom(toks, pos + 1),
                 LAMBDA node : Good(UnaryOpNode("NOT", node.node), node.pos))
    ELSE parse_atom(toks, pos)

\* mutant: the right operand of AND / OR is a whole condition, which makes
\* the operators group to the right
condition_loop_RightAssoc(toks, pos, node) ==
    IF TypeAt(toks, pos) \in {"AND", "OR"}
    THEN AndThen(parse_condition(toks, pos + 1), LAMBDA right :
         Good(BinaryOpNode(node, TypeAt(toks, pos), right.node), right.pos))
    ELSE Good(node, pos)

\* the while loop of parse_condition, node being the condition built so far
condition_loop(toks, pos, node) ==
    IF TypeAt(toks, pos) \in {"AND", "OR"}
    THEN AndThen(parse_expression(toks, pos + 1), LAMBDA right :
         condition_loop(toks, right.pos,
                        BinaryOpNode(node, TypeAt(toks, pos), right.node)))
    ELSE Good(node, pos)

parse_condition(toks, pos) ==
    AndThen(parse_expression(toks, pos),
            LAMBDA node : condition_loop(toks, node.pos, node.node))

\* CountNode(condition): the condition object is new at every call, and its
\* identity is represented by the position of the COUNT token
parse_count(toks, pos) ==
    AndThen(consume(toks, pos, "COUNT"), LAMBDA kw :
    AndThen(consume(toks, kw.pos, "WHERE"), LAMBDA wh :
    AndThen(parse_condition(toks, wh.pos), LAMBDA condition :
    Good(CountNode(condition.node, pos), condition.pos))))

\* mutant: whatever token follows '=' is taken as the value
parse_action_AnyValue(toks, pos) ==
    AndThen(consume(toks, pos, "SET"), LAMBDA kw :
    AndThen(consume(toks, kw.pos, "IDENTIFIER"), LAMBDA identifier_token :
    AndThen(consume(toks, identifier_token.pos, "ASSIGN"), LAMBDA eq :
    LET identifier_node == IdentifierNode(identifier_token.node.value) IN
    IF TypeAt(toks, eq.pos) = "COUNT"
    THEN AndThen(parse_count(toks, eq.pos), LAMBDA value_node :
         Good(SetActionNode(identifier_node, value_node.node), value_node.pos))
    ELSE Good(SetActionNode(identifier_node, ValueOf(toks[eq.pos])), eq.pos + 1))))

parse_action(toks, pos) ==
    AndThen(consume(toks, pos, "SET"), LAMBDA kw :
    AndThen(consume(toks, kw.pos, "IDENTIFIER"), LAMBDA identifier_token :
    AndThen(consume(toks, identifier_token.pos, "ASSIGN"), LAMBDA eq :
    LET identifier_node == IdentifierNode(identifier_token.node.value) IN
    IF TypeAt(toks, eq.pos) = "COUNT"
    THEN AndThen(parse_count(toks, eq.pos), LAMBDA value_node :
         Good(SetActionNode(identifier_node, value_node.node), value_node.pos))
    ELSE IF TypeAt(toks, eq.pos) \in value_token_types
    THEN Good(SetActionNode(identifier_node, ValueOf(toks[eq.pos])), eq.pos + 1)
    ELSE Fail(toks, eq.pos, "Expected a value"))))

\* mutant: the blank-line test does not look at is_nested
action_loop_BlankLineEverywhere(toks, pos, is_nested, actions) ==
    IF TypeAt(toks, pos) \notin {"SET", "IF"} THEN Good(actions, pos) ELSE
    AndThen(IF TypeAt(toks, pos) = "SET"
            THEN parse_action(toks, pos)
            ELSE parse_rule(toks, pos, TRUE),
            LAMBDA action :
    LET newlines == newline_count(toks, action.pos)
        blank_line_after == newlines > 1
        next == action.pos + newlines
    IN IF blank_line_after /\ TypeAt(toks, next) = "IF"
       THEN Good(Append(actions, action.node), next)
       ELSE action_loop(toks, next, is_nested, Append(actions, action.node)))

\* the while loop over the actions of a THEN or an ELSE block (the two loops
\* of parse_rule have the same body), actions being the list built so far
action_loop(toks, pos, is_nested, actions) ==
    IF TypeAt(toks, pos) \notin {"SET", "IF"} THEN Good(actions, pos) ELSE
    AndThen(IF TypeAt(toks, pos) = "SET"
            THEN parse_action(toks, pos)
            ELSE parse_rule(toks, pos, TRUE),
            LAMBDA action :
    LET newlines == newline_count(toks, action.pos)
        blank_line_after == newlines > 1
        next == action.pos + newlines
    IN IF ~is_nested /\ blank_line_after /\ TypeAt(toks, next) = "IF"
       THEN Good(Append(actions, action.node), next)
       ELSE action_loop(toks, next, is_nested, Append(actions, action.node)))

\* mutant: the two "if not ..._actions: raise" tests are left out
parse_rule_EmptyBlocks(toks, pos, is_nested) ==
    AndThen(consume(toks, pos, "IF"), LAMBDA kw :
    AndThen(parse_condition(toks, kw.pos), LAMBDA condition :
    AndThen(consume(toks, condition.pos, "THEN"), LAMBDA th :
    AndThen(action_loop(toks, th.pos + newline_count(toks, th.pos), is_nested, <<>>),
            LAMBDA then_actions :
    IF TypeAt(toks, then_actions.pos) # "ELSE"
    THEN Good(RuleNode(condition.node, then_actions.node, FALSE, <<>>),
              then_actions.pos)
    ELSE
    LET after_else == then_actions.pos + 1 IN
    AndThen(action_loop(toks, after_else + newline_count(toks, after_else),
                        is_nested, <<>>),
            LAMBDA else_actions :
    Good(RuleNode(condition.node, then_actions.node, TRUE, else_actions.node),
         else_actions.pos))))))

\* mutant: a nested rule leaves the ELSE to the rule around it
parse_rule_OuterElse(toks, pos, is_nested) ==
    AndThen(consume(toks, pos, "IF"), LAMBDA kw :
    AndThen(parse_condition(toks, kw.pos), LAMBDA condition :
    AndThen(consume(toks, condition.pos, "THEN"), LAMBDA th :
    AndThen(action_loop(toks, th.pos + newline_count(toks, th.pos), is_nested, <<>>),
            LAMBDA then_actions :
    IF Len(then_actions.node) = 0
    THEN Fail(toks, then_actions.pos, "Expected at least one action after THEN")
    ELSE
    IF TypeAt(toks, then_actions.pos) # "ELSE" \/ is_nested
    THEN Good(RuleNode(condition.node, then_actions.node, FALSE, <<>>),
              then_actions.pos)
    ELSE
    LET after_else == then_actions.pos + 1 IN
    AndThen(action_loop(toks, after_else + newline_count(toks, after_else),
                        is_nested, <<>>),
            LAMBDA else_actions :
    IF Len(else_actions.node) = 0
    THEN Fail(toks, else_actions.pos, "Expected at least one action after ELSE")
    ELSE Good(RuleNode(condition.node, then_actions.node, TRUE, else_actions.node),
              else_actions.pos))))))

parse_rule(toks, pos, is_nested) ==
    AndThen(consume(toks, pos, "IF"), LAMBDA kw :
    AndThen(parse_condition(toks, kw.pos), LAMBDA condition :
    AndThen(consume(toks, condition.pos, "THEN"), LAMBDA th :
    AndThen(action_loop(toks, th.pos + newline_count(toks, th.pos), is_nested, <<>>),
            LAMBDA then_actions :
    IF Len(then_actions.node) = 0
    THEN Fail(toks, then_actions.pos, "Expected at least one action after THEN")
    ELSE
    IF TypeAt(toks, then_actions.pos) # "ELSE"
    THEN \* else_actions = None
         Good(RuleNode(condition.node, then_actions.node, FALSE, <<>>),
              then_actions.pos)
    ELSE
    LET after_else == then_actions.pos + 1 IN
    AndThen(action_loop(toks, after_else + newline_count(toks, after_else),
                        is_nested, <<>>),
            LAMBDA else_actions :
    IF Len(else_actions.node) = 0
    THEN Fail(toks, else_actions.pos, "Expected at least one action after ELSE")
    ELSE Good(RuleNode(condition.node, then_actions.node, TRUE, else_actions.node),
              else_actions.pos))))))

\* the while loop of parse, rules being the list built so far
RECURSIVE rule_loop(_, _, _)

rule_loop(toks, pos, rules) ==
    IF TypeAt(toks, pos) = "EOF" THEN Good(rules, pos) ELSE
    AndThen(parse_rule(toks, pos, FALSE), LAMBDA rule :
    rule_loop(toks, rule.pos + newline_count(toks, rule.pos),
              Append(rules, rule.node)))

\* Parser(tokens).parse(): the list of the top-level rules (RuleScriptNode)
parse(toks) ==
    IF Len(toks) = 0
    THEN [err |-> "ParserError", msg |-> "Received empty token list", pos |-> 1,
          node |-> NoNode]
    ELSE AndThen(rule_loop(toks, 1 + newline_count(toks, 1), <<>>), LAMBDA rules :
         IF Len(rules.node) = 0
         THEN Fail(toks, rules.pos, "Empty rule script")
         ELSE rules)

-----------------------------------------------------------------------------
(* The executor's visitors.  Each takes the node, the interpreter state m   *)
(* (rows, count_cache and the history logs), the index i of context_row in  *)
(* rows, and the path of the action being run; each returns the new state,  *)
(* the value returned and whether an exception propagated.  What a visitor  *)
(* changed before an exception stays changed: rows are mutated in place.    *)

Ok(m, v) == [m |-> m, val |-> v, err |-> FALSE]
Raise(m) == [m |-> m, val |-> FALSE, err |-> TRUE]
Log(m, e) == [m EXCEPT !.acts = Append(@, e)]

RECURSIVE visit(_, _, _, _)
RECURSIVE RunActions(_, _, _, _, _)
RECURSIVE CountLoop(_, _, _, _)

visit_ValueNode(node, m, i, path) ==
    Ok(m, IF node.token_type = "NULL" THEN Null ELSE node.value)

\* mutant: an absent field reads as null without being inserted in the row
visit_IdentifierNode_NoInsert(node, m, i, path) ==
    LET value == IF m.rows[i][node.name] = Absent THEN Null
                 ELSE m.rows[i][node.name]
    IN Ok(Log(m, [ev |-> "read", row |-> i, name |-> node.name,
                  before |-> m.rows[i], after |-> m.rows[i], val |-> value]),
          value)

\* mutant: every read goes to the first row of the table
visit_IdentifierNode_FirstRow(node, m, i, path) ==
    LET m1 == IF m.rows[1][node.name] = Absent
              THEN [m EXCEPT !.rows[1][node.name] = Null]
              ELSE m
    IN Ok(Log(m1, [ev |-> "read", row |-> i, name |-> node.name,
                   before |-> m.rows[i], after |-> m1.rows[i],
                   val |-> m1.rows[1][node.name]]),
          m1.rows[1][node.name])

visit_IdentifierNode(node, m, i, path) ==
    LET m1 == IF m.rows[i][node.name] = Absent
              THEN [m EXCEPT !.rows[i][node.name] = Null]
              ELSE m
    IN Ok(Log(m1, [ev |-> "read", row |-> i, name |-> node.name,
                   before |-> m.rows[i], after |-> m1.rows[i],
                   val |-> m1.rows[i][node.name]]),
          m1.rows[i][node.name])

\* mutant: only the left operand is tested for null
visit_ComparisonNode_LeftOnly(node, m, i, path) ==
    LET l == visit(node.left_identifier, m, i, path)
        r == visit(node.right_value, l.m, i, path)
        res == IF isna(l.val)
               THEN [err |-> FALSE, val |-> FALSE]
               ELSE PyCompare(node.op, l.val, r.val)
        m2 == Log(r.m, [ev |-> "cmp", row |-> i, op |-> node.op, l |-> l.val,
                        r |-> r.val, err |-> res.err, val |-> res.val])
    IN IF res.err THEN Raise(m2) ELSE Ok(m2, res.val)

visit_ComparisonNode(node, m, i, path) ==
    LET l == visit(node.left_identifier, m, i, path)
        r == visit(node.right_value, l.m, i, path)
        res == IF isna(l.val) \/ isna(r.val)
               THEN [err |-> FALSE, val |-> FALSE]
               ELSE PyCompare(node.op, l.val, r.val)
        m2 == Log(r.m, [ev |-> "cmp", row |-> i, op |-> node.op, l |-> l.val,
                        r |-> r.val, err |-> res.err, val |-> res.val])
    IN IF res.err THEN Raise(m2) ELSE Ok(m2, res.val)

visit_IsNullNode(node, m, i, path) ==
    LET v == visit(node.identifier, m, i, path)
        is_null == isna(v.val)
    IN Ok(v.m, IF node.is_not THEN ~is_null ELSE is_null)

visit_UnaryOpNode(node, m, i, path) ==
    LET o == visit(node.operand, m, i, path)
    IN IF o.err THEN Raise(o.m) ELSE Ok(o.m, ~o.val)

\* mutant: both sides are visited before the operator is applied
visit_BinaryOpNode_Eager(node, m, i, path) ==
    LET left_val == visit(node.left, m, i, path)
        right_val == visit(node.right, left_val.m, i, path)
        v == IF node.op = "AND" THEN left_val.val /\ right_val.val
             ELSE left_val.val \/ right_val.val
    IN IF left_val.err THEN Raise(left_val.m)
       ELSE IF right_val.err
       THEN Raise(Log(right_val.m,
                      [ev |-> "binop", row |-> i, op |-> node.op,
                       left |-> left_val.val, right_visited |-> TRUE,
                       err |-> TRUE, val |-> FALSE]))
       ELSE Ok(Log(right_val.m,
                   [ev |-> "binop", row |-> i, op |-> node.op,
                    left |-> left_val.val, right_visited |-> TRUE,
                    err |-> FALSE, val |-> v]), v)

\* AND returns False without visiting the right side when the left is falsy,
\* OR returns True without visiting the right side when the left is truthy.
visit_BinaryOpNode(node, m, i, path) ==
    LET left_val == visit(node.left, m, i, path)
        right_val == visit(node.right, left_val.m, i, path)
        BinEv(visited, e, v) ==
            [ev |-> "binop", row |-> i, op |-> node.op, left |-> left_val.val,
             right_visited |-> visited, err |-> e, val |-> v]
    IN IF left_val.err THEN Raise(left_val.m)
       ELSE IF node.op = "AND"
       THEN IF ~left_val.val
            THEN Ok(Log(left_val.m, BinEv(FALSE, FALSE, FALSE)), FALSE)
            ELSE IF right_val.err
            THEN Raise(Log(right_val.m, BinEv(TRUE, TRUE, FALSE)))
            ELSE Ok(Log(right_val.m,
                        BinEv(TRUE, FALSE, left_val.val /\ right_val.val)),
                    left_val.val /\ right_val.val)
       ELSE IF left_val.val
            THEN Ok(Log(left_val.m, BinEv(FALSE, FALSE, TRUE)), TRUE)
            ELSE IF right_val.err
            THEN Raise(Log(right_val.m, BinEv(TRUE, TRUE, FALSE)))
            ELSE Ok(Log(right_val.m,
                        BinEv(TRUE, FALSE, left_val.val \/ right_val.val)),
                    left_val.val \/ right_val.val)

RECURSIVE CountLoop_OnCopy(_, _, _, _)
\* mutant: the condition is evaluated on a copy of each row
CountLoop_OnCopy(condition, j, m, count) ==
    IF j > Len(m.rows) THEN [m |-> m, count |-> count]
    ELSE LET r == visit(condition, m, j, <<>>)
         IN CountLoop_OnCopy(condition, j + 1, [r.m EXCEPT !.rows = m.rows],
                             IF ~r.err /\ r.val THEN count + 1 ELSE count)

RECURSIVE CountLoop_StopsAtError(_, _, _, _)
\* mutant: the try/except is around the loop, an error ends the scan
CountLoop_StopsAtError(condition, j, m, count) ==
    IF j > Len(m.rows) THEN [m |-> m, count |-> count]
    ELSE LET r == visit(condition, m, j, <<>>)
         IN IF r.err THEN [m |-> r.m, count |-> count]
            ELSE CountLoop_StopsAtError(condition, j + 1, r.m,
                                        IF r.val THEN count + 1 ELSE count)

RECURSIVE CountLoop_NoTest(_, _, _, _)
\* mutant: every row that raises nothing is counted, truthy or not
CountLoop_NoTest(condition, j, m, count) ==
    IF j > Len(m.rows) THEN [m |-> m, count |-> count]
    ELSE LET r == visit(condition, m, j, <<>>)
         IN CountLoop_NoTest(condition, j + 1, r.m,
                             IF ~r.err THEN count + 1 ELSE count)

\* for row in self.all_rows: try: if visit(condition, row): count += 1
\* except Exception: pass
CountLoop(condition, j, m, count) ==
    IF j > Len(m.rows) THEN [m |-> m, count |-> count]
    ELSE LET r == visit(condition, m, j, <<>>)
         IN CountLoop(condition, j + 1, r.m,
                      IF ~r.err /\ r.val THEN count + 1 ELSE count)

\* mutant: the count is never stored in count_cache
visit_CountNode_NoStore(node, m, i, path) ==
    LET condition_key == node.key
        ma == [m EXCEPT !.asked = @ \cup {condition_key}]
        s == CountLoop(node.condition, 1, ma, 0)
        m2 == [s.m EXCEPT !.scans = Append(@, condition_key)]
    IN Ok(Log(m2, [ev |-> "count", row |-> i, key |-> condition_key,
                   hit |-> FALSE, val |-> s.count, condition |-> node.condition,
                   table |-> m.rows, scanned |-> m.rows, after |-> s.m.rows]),
          Num(s.count))

visit_CountNode(node, m, i, path) ==
    LET condition_key == node.key
        CountEv(hit, n, after) ==
            [ev |-> "count", row |-> i, key |-> condition_key, hit |-> hit,
             val |-> n, condition |-> node.condition, table |-> m.rows,
             scanned |-> IF hit THEN m.scanned_on[condition_key] ELSE m.rows,
             after |-> after]
        ma == [m EXCEPT !.asked = @ \cup {condition_key}]
    IN IF condition_key \in DOMAIN m.count_cache
       THEN Ok(Log(ma, CountEv(TRUE, m.count_cache[condition_key], m.rows)),
               Num(m.count_cache[condition_key]))
       ELSE LET s == CountLoop(node.condition, 1, ma, 0)
                cached == [k \in DOMAIN m.count_cache \cup {condition_key} |->
                             IF k = condition_key THEN s.count
                             ELSE m.count_cache[k]]
                m2 == [s.m EXCEPT !.count_cache = cached,
                                  !.scans = Append(@, condition_key),
                                  !.scanned_on = [k \in DOMAIN cached |->
                                      IF k = condition_key THEN m.rows
                                      ELSE m.scanned_on[k]]]
            IN Ok(Log(m2, CountEv(FALSE, s.count, s.m.rows)), Num(s.count))

visit_SetActionNode(node, m, i, path) ==
    LET new_value == visit(node.value_node, m, i, path)
        column_to_set == node.identifier.name
        m2 == [new_value.m EXCEPT !.rows[i][column_to_set] = new_value.val]
    IN IF new_value.err THEN Raise(new_value.m)
       ELSE Ok(Log(m2, [ev |-> "set", row |-> i, path |-> path,
                        target |-> column_to_set, value |-> new_value.val,
                        from_count |-> node.value_node.type = "CountNode"]),
               TRUE)

RECURSIVE RunActions_Reversed(_, _, _, _, _)
\* mutant: the actions of a block run last to first
RunActions_Reversed(actions, k, m, i, branch) ==
    IF k > Len(actions) THEN Ok(m, TRUE)
    ELSE LET a == visit(actions[Len(actions) + 1 - k], m, i,
                        branch \o <<Len(actions) + 1 - k>>)
         IN IF a.err THEN Raise(a.m)
            ELSE RunActions_Reversed(actions, k + 1, a.m, i, branch)

\* for action_node in actions: self.visit(action_node, context_row)
RunActions(actions, k, m, i, branch) ==
    IF k > Len(actions) THEN Ok(m, TRUE)
    ELSE LET a == visit(actions[k], m, i, branch \o <<k>>)
         IN IF a.err THEN Raise(a.m)
            ELSE RunActions(actions, k + 1, a.m, i, branch)

\* mutant: the THEN block runs whatever the condition's result
visit_RuleNode_AlwaysThen(node, m, i, path) ==
    LET m0 == Log(m, [ev |-> "rule", row |-> i, path |-> path, seen |-> m.rows[i]])
        condition_result == visit(node.condition, m0, i, path)
    IN IF condition_result.err THEN Raise(condition_result.m)
       ELSE RunActions(node.then_actions, 1, condition_result.m, i, path \o <<1>>)

\* mutant: the ELSE block also runs after the THEN block
visit_RuleNode_FallThrough(node, m, i, path) ==
    LET m0 == Log(m, [ev |-> "rule", row |-> i, path |-> path, seen |-> m.rows[i]])
        condition_result == visit(node.condition, m0, i, path)
    IN IF condition_result.err THEN Raise(condition_result.m)
       ELSE IF condition_result.val
       THEN LET t == RunActions(node.then_actions, 1, condition_result.m, i,
                                path \o <<1>>)
            IN IF t.err \/ ~node.has_else THEN t
               ELSE RunActions(node.else_actions, 1, t.m, i, path \o <<2>>)
       ELSE IF node.has_else
       THEN RunActions(node.else_actions, 1, condition_result.m, i, path \o <<2>>)
       ELSE Ok(condition_result.m, TRUE)

\* if condition_result: THEN block; elif node.else_actions is not None: ELSE block

visit_RuleNode(node, m, i, path) ==
    LET m0 == Log(m, [ev |-> "rule", row |-> i, path |-> path, seen |-> m.rows[i]])
        condition_result == visit(node.condition, m0, i, path)
    IN IF condition_result.err THEN Raise(condition_result.m)
       ELSE IF condition_result.val
       THEN RunActions(node.then_actions, 1, condition_result.m, i, path \o <<1>>)
       ELSE IF node.has_else
       THEN RunActions(node.else_actions, 1, condition_result.m, i, path \o <<2>>)
       ELSE Ok(condition_result.m, TRUE)

\* method_name = f'visit_{type(node).__name__}'
visit(node, m, i, path) ==
    CASE node.type = "RuleNode" -> visit_RuleNode(node, m, i, path)
      [] node.type = "SetActionNode" -> visit_SetActionNode(node, m, i, path)
      [] node.type = "BinaryOpNode" -> visit_BinaryOpNode(node, m, i, path)
      [] node.type = "UnaryOpNode" -> visit_UnaryOpNode(node, m, i, path)
      [] node.type = "ComparisonNode" -> visit_ComparisonNode(node, m, i, path)
      [] node.type = "IsNullNode" -> visit_IsNullNode(node, m, i, path)
      [] node.type = "CountNode" -> visit_CountNode(node, m, i, path)
      [] node.type = "ValueNode" -> visit_ValueNode(node, m, i, path)
      [] node.type = "IdentifierNode" -> visit_IdentifierNode(node, m, i, path)

-----------------------------------------------------------------------------
(* Inputs: the tables a loader can hand over and the scripts a parse can    *)
(* return.  Every row of a table has the same columns (DataFrame.to_dict);  *)
(* the other field names exist in a row only once a rule reads or sets them.*)

Columns == {"v", "w"}
Targets == {"f", "n"}
FieldNames == Columns \cup Targets

RowKinds ==
    {[k \in FieldNames |-> IF k = "v" THEN p[1] ELSE IF k = "w" THEN p[2] ELSE Absent] :
        p \in {<<Null, Num(1)>>, <<Num(1), Num(1)>>, <<Num(2), Num(1)>>,
               <<Str(1), Num(1)>>, <<Null, Null>>, <<Num(1), Null>>,
               <<Str(1), Null>>}}

Tables == UNION {[1..n -> RowKinds] : n \in 0..MaxRows}

Id(name) == IdentifierNode(name)

Lit(v) ==
    ValueNode(CASE v[1] = "num" -> "NUMBER" [] v[1] = "str" -> "STRING"
                [] v[1] = "bool" -> "BOOLEAN" [] v[1] = "null" -> "NULL",
              IF v[1] = "null" THEN "NULL" ELSE v)

Cmp(name, op, right) == ComparisonNode(Id(name), op, right)
SetLit(name, v) == SetActionNode(Id(name), Lit(v))
SetCount(name, condition, key) == SetActionNode(Id(name), CountNode(condition, key))
If(c, then_actions) == RuleNode(c, then_actions, FALSE, <<>>)
IfElse(c, then_actions, else_actions) == RuleNode(c, then_actions, TRUE, else_actions)

\* the conditions of the one-rule scripts
Conditions ==
    {Cmp("v", op, Lit(Num(1))) : op \in CmpOps}
    \cup {Cmp("v", op, Id("w")) : op \in CmpOps}
    \cup {Cmp("v", op, Lit(Str(1))) : op \in CmpOps}
    \cup {Cmp("f", "EQ", Lit(Bool(TRUE)))}
    \cup {IsNullNode(Id("v"), b) : b \in BOOLEAN}
    \cup {BinaryOpNode(IsNullNode(Id("w"), b), op, Cmp("v", "GT", Lit(Num(1)))) :
            b \in BOOLEAN, op \in {"AND", "OR"}}
    \cup {UnaryOpNode("NOT", Cmp("v", "GT", Lit(Num(1))))}
    \cup {BinaryOpNode(Cmp("f", "EQ", Lit(Bool(TRUE))), "OR", IsNullNode(Id("f"), FALSE))}

\* IF c THEN SET f = TRUE ELSE SET f = FALSE
OneRuleScripts ==
    {<<IfElse(c, <<SetLit("f", Bool(TRUE))>>, <<SetLit("f", Bool(FALSE))>>)>> :
        c \in Conditions}

\* IF c THEN SET f = TRUE
NoElseScripts == {<<If(c, <<SetLit("f", Bool(TRUE))>>)>> : c \in Conditions}

\* IF 'w' IS NOT NULL THEN SET f = 1 / IF 'v' >= 'f' THEN SET n = 2
NestedRule ==
    If(IsNullNode(Id("w"), TRUE),
       <<SetLit("f", Num(1)),
         If(Cmp("v", "GTE", Id("f")), <<SetLit("n", Num(2))>>)>>)

\* IF 'v' == 1 THEN SET v = 2 / SET n = COUNT WHERE 'v' == 1
\* ELSE SET n = COUNT WHERE 'v' == 1
RecountRule ==
    IfElse(Cmp("v", "EQ", Lit(Num(1))),
           <<SetLit("v", Num(2)), SetCount("n", Cmp("v", "EQ", Lit(Num(1))), 1)>>,
           <<SetCount("n", Cmp("v", "EQ", Lit(Num(1))), 2)>>)

\* IF 'w' IS NOT NULL THEN SET n = COUNT WHERE 'v' > 1 / SET f = COUNT WHERE 'v' > 1
\* ELSE SET n = NULL
TwoCountsRule ==
    IfElse(IsNullNode(Id("w"), TRUE),
           <<SetCount("n", Cmp("v", "GT", Lit(Num(1))), 3),
             SetCount("f", Cmp("v", "GT", Lit(Num(1))), 4)>>,
           <<SetLit("n", Null)>>)

\* IF 'v' IS NOT NULL THEN SET n = COUNT WHERE 'f' IS NULL AND 'v' > 1
CountAbsentRule ==
    If(IsNullNode(Id("v"), TRUE),
       <<SetCount("n", BinaryOpNode(IsNullNode(Id("f"), FALSE), "AND",
                                    Cmp("v", "GT", Lit(Num(1)))), 5)>>)

Rules == {NestedRule, RecountRule, TwoCountsRule}

Scripts ==
    OneRuleScripts \cup NoElseScripts \cup {<<CountAbsentRule>>}
    \cup UNION {[1..n -> Rules] : n \in 1..MaxRules}

-----------------------------------------------------------------------------
(* Executor: __init__, load_data, execute *)

\* pd.DataFrame(results): the columns are the keys of all the records, and a
\* record without a key has NaN in that column
DataFrame(records) ==
    LET columns == {c \in FieldNames :
                       \E j \in DOMAIN records : records[j][c] # Absent}
    IN [j \in DOMAIN records |->
           [c \in FieldNames |->
               IF records[j][c] = Absent /\ c \in columns THEN Null
               ELSE records[j][c]]]

NoVisit == [rule |-> 0, row |-> 0, pre |-> <<>>, raised |-> FALSE, acts |-> <<>>]

Init ==
    /\ ast \in Scripts
    /\ data = <<>>
    /\ loaded = FALSE
    /\ rows = <<>>
    /\ count_cache = <<>>
    /\ pc = "new"
    /\ ri = 0
    /\ wi = 0
    /\ warnings = <<>>
    /\ visits = <<>>
    /\ scans = <<>>
    /\ asked = {}
    /\ scanned_on = <<>>
    /\ last = NoVisit
    /\ results_df = <<>>
    /\ tokens = <<>>
    /\ source = "none"
    /\ emitted = 0
    /\ stage = "none"
    /\ result = NoResult
    /\ text = <<>>
    /\ lexer = [pos |-> 0, line |-> 1, col |-> 1]
    /\ lexed = <<>>
    /\ lex_stage = "none"
    /\ got = NoToken

\* self.data = pd.read_csv(filepath)
load_data ==
    /\ pc = "new"
    /\ ~loaded
    /\ \E t \in Tables : data' = t
    /\ loaded' = TRUE
    /\ UNCHANGED <<results_df, ast, rows, count_cache, pc, ri, wi, warnings, visits, scans,
                   asked, scanned_on, last>>
    /\ UNCHANGED <<pvars, lvars>>

\* if self.data is None: raise; results = self.data.to_dict('records')
execute ==
    /\ pc = "new"
    /\ IF loaded
       THEN /\ rows' = data
            /\ ri' = 1
            /\ pc' = "rules"
       ELSE /\ pc' = "setup_error"
            /\ UNCHANGED <<rows, ri>>
    /\ UNCHANGED <<results_df, ast, data, loaded, count_cache, wi, warnings, visits, scans,
                   asked, scanned_on, last>>
    /\ UNCHANGED <<pvars, lvars>>

\* mutant: the memo of the previous rule is kept
BeginRule_KeepsCache ==
    /\ pc = "rules"
    /\ ri <= Len(ast)
    /\ scans' = <<>>
    /\ asked' = {}
    /\ wi' = 1
    /\ pc' = "rows"
    /\ UNCHANGED <<results_df, ast, data, loaded, rows, ri, warnings, visits, last,
                   count_cache, scanned_on>>
    /\ UNCHANGED <<pvars, lvars>>

\* for rule_node in self.ast.rules: self.count_cache = {}
BeginRule ==
    /\ pc = "rules"
    /\ ri <= Len(ast)
    /\ count_cache' = <<>>
    /\ scans' = <<>>
    /\ asked' = {}
    /\ scanned_on' = <<>>
    /\ wi' = 1
    /\ pc' = "rows"
    /\ UNCHANGED <<results_df, ast, data, loaded, rows, ri, warnings, visits, last>>
    /\ UNCHANGED <<pvars, lvars>>

\* mutant: no try/except around the visit, the exception leaves execute
VisitRow_NoCatch ==
    /\ pc = "rows"
    /\ wi <= Len(rows)
    /\ LET m0 == [rows |-> rows, count_cache |-> count_cache, scans |-> scans,
                  asked |-> asked, scanned_on |-> scanned_on, acts |-> <<>>]
           r == visit(ast[ri], m0, wi, <<>>)
       IN /\ rows' = r.m.rows
          /\ count_cache' = r.m.count_cache
          /\ scans' = r.m.scans
          /\ asked' = r.m.asked
          /\ scanned_on' = r.m.scanned_on
          /\ pc' = IF r.err THEN "raised" ELSE pc
          /\ last' = [rule |-> ri, row |-> wi, pre |-> rows, raised |-> r.err,
                      acts |-> r.m.acts]
    /\ visits' = Append(visits, <<ri, wi>>)
    /\ wi' = wi + 1
    /\ UNCHANGED <<results_df, ast, data, loaded, ri, warnings>>
    /\ UNCHANGED <<pvars, lvars>>

\* mutant: a row whose visit raised is removed from the results
VisitRow_DropsRow ==
    /\ pc = "rows"
    /\ wi <= Len(rows)
    /\ LET m0 == [rows |-> rows, count_cache |-> count_cache, scans |-> scans,
                  asked |-> asked, scanned_on |-> scanned_on, acts |-> <<>>]
           r == visit(ast[ri], m0, wi, <<>>)
       IN /\ rows' = IF r.err
                     THEN SubSeq(r.m.rows, 1, wi - 1)
                          \o SubSeq(r.m.rows, wi + 1, Len(r.m.rows))
                     ELSE r.m.rows
          /\ count_cache' = r.m.count_cache
          /\ scans' = r.m.scans
          /\ asked' = r.m.asked
          /\ scanned_on' = r.m.scanned_on
          /\ warnings' = IF r.err THEN Append(warnings, <<ri, wi>>) ELSE warnings
          /\ last' = [rule |-> ri, row |-> wi, pre |-> rows, raised |-> r.err,
                      acts |-> r.m.acts]
    /\ visits' = Append(visits, <<ri, wi>>)
    /\ wi' = wi + 1
    /\ UNCHANGED <<results_df, ast, data, loaded, pc, ri>>
    /\ UNCHANGED <<pvars, lvars>>

\* mutant: a visit that raises leaves the rows as they were before it
VisitRow_Rollback ==
    /\ pc = "rows"
    /\ wi <= Len(rows)
    /\ LET m0 == [rows |-> rows, count_cache |-> count_cache, scans |-> scans,
                  asked |-> asked, scanned_on |-> scanned_on, acts |-> <<>>]
           r == visit(ast[ri], m0, wi, <<>>)
       IN /\ rows' = IF r.err THEN rows ELSE r.m.rows
          /\ count_cache' = r.m.count_cache
          /\ scans' = r.m.scans
          /\ asked' = r.m.asked
          /\ scanned_on' = r.m.scanned_on
          /\ warnings' = IF r.err THEN Append(warnings, <<ri, wi>>) ELSE warnings
          /\ last' = [rule |-> ri, row |-> wi, pre |-> rows, raised |-> r.err,
                      acts |-> r.m.acts]
    /\ visits' = Append(visits, <<ri, wi>>)
    /\ wi' = wi + 1
    /\ UNCHANGED <<results_df, ast, data, loaded, pc, ri>>
    /\ UNCHANGED <<pvars, lvars>>

\* for row in results: try: self.visit(rule_node, row)
\* except Exception as e: print(f"Runtime Warning: ...")
VisitRow ==
    /\ pc = "rows"
    /\ wi <= Len(rows)
    /\ LET m0 == [rows |-> rows, count_cache |-> count_cache, scans |-> scans,
                  asked |-> asked, scanned_on |-> scanned_on, acts |-> <<>>]
           r == visit(ast[ri], m0, wi, <<>>)
       IN /\ rows' = r.m.rows
          /\ count_cache' = r.m.count_cache
          /\ scans' = r.m.scans
          /\ asked' = r.m.asked
          /\ scanned_on' = r.m.scanned_on
          /\ warnings' = IF r.err THEN Append(warnings, <<ri, wi>>) ELSE warnings
          /\ last' = [rule |-> ri, row |-> wi, pre |-> rows, raised |-> r.err,
                      acts |-> r.m.acts]
    /\ visits' = Append(visits, <<ri, wi>>)
    /\ wi' = wi + 1
    /\ UNCHANGED <<results_df, ast, data, loaded, pc, ri>>
    /\ UNCHANGED <<pvars, lvars>>

\* the row loop is exhausted: on to the next rule_node
EndRule ==
    /\ pc = "rows"
    /\ wi > Len(rows)
    /\ ri' = ri + 1
    /\ pc' = "rules"
    /\ UNCHANGED <<results_df, ast, data, loaded, rows, count_cache, wi, warnings, visits,
                   scans, asked, scanned_on, last>>
    /\ UNCHANGED <<pvars, lvars>>

\* return pd.DataFrame(results)
Return ==
    /\ pc = "rules"
    /\ ri > Len(ast)
    /\ pc' = "done"
    /\ results_df' = DataFrame(rows)
    /\ UNCHANGED <<ast, data, loaded, rows, count_cache, ri, wi, warnings, visits,
                   scans, asked, scanned_on, last>>
    /\ UNCHANGED <<pvars, lvars>>

Next == load_data \/ execute \/ BeginRule \/ VisitRow \/ EndRule \/ Return

Spec == Init /\ [][Next]_vars

-----------------------------------------------------------------------------
(* Script texts, token by token.  A text is tokenized a phrase at a time;   *)
(* what is tokenized after the first token the parser cannot accept makes   *)
(* no difference to the parse, so the text ends there.                      *)

\* 'a' > 1  |  'b' IS NULL  |  'c' == "s"
AtomA == <<Ident("a"), Punct("GT"), Number(1)>>
AtomB == <<Ident("b"), Keyword("IS"), Keyword("NULL")>>
AtomC == <<Ident("c"), Punct("EQ"), String(1)>>

\* SET 'x' = 1
SetX == <<Keyword("SET"), Ident("x"), Punct("ASSIGN"), Number(1)>>

\* IF 'a' > 1 THEN
IfThen == <<Keyword("IF")>> \o AtomA \o <<Keyword("THEN")>>

\* THEN SET 'x' = 1
ThenSet == <<Keyword("THEN")>> \o SetX

\* SET 'n' = COUNT WHERE 'a' > 1
SetCountA ==
    <<Keyword("SET"), Ident("n"), Punct("ASSIGN"), Keyword("COUNT"), Keyword("WHERE")>>
    \o AtomA

\* one token of every type
OneOfEach ==
    {Keyword(k) : k \in Keywords} \cup {Punct(t) : t \in Punctuation}
    \cup {Number(1), String(1), Boolean(TRUE), Ident("b"), NewlineToken}

\* the words a rule is made of: a text may stop after any of them
Pieces ==
    {Keyword("IF"), Ident("a"), Punct("GT"), Number(1), Keyword("THEN"),
     Keyword("SET"), Punct("ASSIGN"), Keyword("COUNT"), Keyword("WHERE"),
     Keyword("ELSE"), NewlineToken}

Sources == {"rules", "condition", "comparison", "pieces"}

\* the text tokenized before the first phrase
Start(src) ==
    CASE src = "rules" -> <<>>
      [] src = "condition" -> <<Keyword("IF")>>
      [] src = "comparison" -> <<Keyword("IF"), Ident("a")>>
      [] src = "pieces" -> <<>>

Phrases(src) ==
    CASE src = "rules" -> {IfThen, SetX, SetCountA, <<Keyword("ELSE")>>, <<NewlineToken>>}
      [] src = "condition" ->
            {AtomA, AtomB, AtomC, <<Keyword("AND")>>, <<Keyword("OR")>>,
             <<Keyword("NOT")>>, <<Punct("LPAREN")>>, <<Punct("RPAREN")>>,
             ThenSet}
      [] src = "comparison" -> {<<t>> : t \in OneOfEach} \cup {ThenSet}
      [] src = "pieces" -> {<<t>> : t \in Pieces}

Cap(src) ==
    CASE src = "rules" -> MaxPhrases
      [] src = "condition" -> MaxCondition
      [] src = "comparison" -> MaxTokens
      [] src = "pieces" -> MaxPieces

\* the parser reads all of toks: followed by EOF, the parse succeeds or fails
\* at the EOF token
Accepts(toks) ==
    LET r == parse(Append(toks, EOFToken)) IN r.err = "" \/ r.pos = Len(toks) + 1

InitParse ==
    /\ source \in Sources
    /\ tokens = Start(source)
    /\ emitted = 0
    /\ stage = "lexing"
    /\ result = NoResult
    /\ ast = <<>>
    /\ data = <<>>
    /\ loaded = FALSE
    /\ rows = <<>>
    /\ count_cache = <<>>
    /\ pc = "none"
    /\ ri = 0
    /\ wi = 0
    /\ warnings = <<>>
    /\ visits = <<>>
    /\ scans = <<>>
    /\ asked = {}
    /\ scanned_on = <<>>
    /\ last = NoVisit
    /\ results_df = <<>>
    /\ text = <<>>
    /\ lexer = [pos |-> 0, line |-> 1, col |-> 1]
    /\ lexed = <<>>
    /\ lex_stage = "none"
    /\ got = NoToken

\* Lexer.tokenize: the tokens of the next phrase of the text
get_next_token ==
    /\ stage = "lexing"
    /\ emitted < Cap(source)
    /\ Accepts(tokens)
    /\ \E phrase \in Phrases(source) : tokens' = tokens \o phrase
    /\ emitted' = emitted + 1
    /\ UNCHANGED <<source, stage, result>>
    /\ UNCHANGED <<evars, lvars>>

\* Lexer.tokenize: end of text, tokens.append(token)  # Add EOF
end_of_file ==
    /\ stage = "lexing"
    /\ tokens' = Append(tokens, EOFToken)
    /\ stage' = "lexed"
    /\ UNCHANGED <<source, emitted, result>>
    /\ UNCHANGED <<evars, lvars>>

\* main.py: ast = Parser(tokens).parse()
Parse ==
    /\ stage = "lexed"
    /\ result' = parse(tokens)
    /\ stage' = "parsed"
    /\ UNCHANGED <<tokens, source, emitted>>
    /\ UNCHANGED <<evars, lvars>>

NextParse == get_next_token \/ end_of_file \/ Parse

SpecParse == InitParse /\ [][NextParse]_vars

-----------------------------------------------------------------------------
(* SpecLex: Lexer(text).tokenize() on every text of at most MaxChars        *)
(* characters of LexAlphabet, one step per call of get_next_token.          *)

\* Lexer.__init__: pos 0, line 1, col 1
InitLex ==
    /\ text \in Texts
    /\ lexer = [pos |-> 0, line |-> 1, col |-> 1]
    /\ lexed = <<>>
    /\ lex_stage = "lexing"
    /\ got = NoToken
    /\ ast = <<>>
    /\ data = <<>>
    /\ loaded = FALSE
    /\ rows = <<>>
    /\ count_cache = <<>>
    /\ pc = "none"
    /\ ri = 0
    /\ wi = 0
    /\ warnings = <<>>
    /\ visits = <<>>
    /\ scans = <<>>
    /\ asked = {}
    /\ scanned_on = <<>>
    /\ last = NoVisit
    /\ results_df = <<>>
    /\ tokens = <<>>
    /\ source = "none"
    /\ emitted = 0
    /\ stage = "none"
    /\ result = NoResult

\* Lexer.tokenize: token = self.get_next_token(); tokens.append(token), until
\* the EOF token has been appended; a LexerError leaves tokenize
tokenize ==
    /\ lex_stage = "lexing"
    /\ LET r == next_token(text, lexer)
       IN /\ lexer' = r.lx
          /\ lexed' = IF r.raised THEN lexed ELSE Append(lexed, r.token)
          /\ lex_stage' = IF r.raised THEN "error"
                          ELSE IF r.token.type = "EOF" THEN "done" ELSE "lexing"
          /\ got' = [before |-> lexer, token |-> r.token, raised |-> r.raised]
    /\ UNCHANGED text
    /\ UNCHANGED <<evars, pvars>>

NextLex == tokenize

SpecLex == InitLex /\ [][NextLex]_vars

-----------------------------------------------------------------------------
(* Helpers of the properties *)

Range(q) == {q[k] : k \in DOMAIN q}

\* an interpreter state over a given table with an empty memo and empty logs
Scratch(table) ==
    [rows |-> table, count_cache |-> <<>>, scans |-> <<>>, asked |-> {},
     scanned_on |-> <<>>, acts |-> <<>>]

\* the result of evaluating a condition on row j of a table
EvalOn(condition, table, j) == visit(condition, Scratch(table), j, <<>>)

\* the number of rows of a table on which a condition evaluates truthy
TruthyCount(condition, table) ==
    Cardinality({j \in 1..Len(table) :
                    LET r == EvalOn(condition, table, j) IN ~r.err /\ r.val})

RECURSIVE LexLess(_, _)
\* lexicographic order of action paths (a proper prefix comes first)
LexLess(a, b) ==
    IF a = <<>> THEN b # <<>>
    ELSE IF b = <<>> THEN FALSE
    ELSE IF Head(a) # Head(b) THEN Head(a) < Head(b)
    ELSE LexLess(Tail(a), Tail(b))

IsAction(e) == e.ev \in {"set", "rule"}

\* the SETs and rule visits of the latest (rule, row) visit, in execution order
ActionEvents == SelectSeq(last.acts, IsAction)

IsTopAction(e) == IsAction(e) /\ Len(e.path) = 2

\* the actions of the visited top-level rule's own block that were started
TopActions == SelectSeq(last.acts, IsTopAction)

RuleMajor(q, n) ==
    \A k \in 1..Len(q) : q[k] = <<((k - 1) \div n) + 1, ((k - 1) % n) + 1>>

BranchOf(rule, b) == IF b = 1 THEN rule.then_actions ELSE rule.else_actions

-----------------------------------------------------------------------------
(* C1: execute is rule-major: the (rule, row) visits run rule by rule in    *)
(* source order and, within a rule, row by row in table order, and all of   *)
(* them have run when execute returns; within one row the actions of the    *)
(* taken branch run in source order, and a nested rule sees in the row the  *)
(* value written by the latest SET that ran before it.                      *)
C1_RuleMajorOrder ==
    /\ visits # <<>> => RuleMajor(visits, Len(rows))
    /\ pc = "done" => Len(visits) = Len(ast) * Len(rows)
    /\ \A k \in 1..(Len(ActionEvents) - 1) :
          LexLess(ActionEvents[k].path, ActionEvents[k + 1].path)
    /\ \A k \in 1..Len(TopActions) :
          TopActions[k].path = <<TopActions[1].path[1], k>>
    /\ (~last.raised /\ TopActions # <<>>) =>
          Len(TopActions) = Len(BranchOf(ast[last.rule], TopActions[1].path[1]))
    /\ \A k \in 1..Len(last.acts) :
          (last.acts[k].ev = "rule" /\ last.acts[k].path # <<>>) =>
             \A j \in 1..(k - 1) :
                (/\ last.acts[j].ev = "set"
                 /\ \A h \in (j + 1)..(k - 1) :
                       ~(last.acts[h].ev = "set"
                         /\ last.acts[h].target = last.acts[j].target))
                => last.acts[k].seen[last.acts[j].target] = last.acts[j].value

\* a two-rule script has returned on a two-row table, and in the last visit a
\* nested rule ran its own SET after the SET that precedes it in the block
C1_Witness ==
    /\ pc = "done"
    /\ Len(ast) = 2
    /\ Len(rows) = 2
    /\ \E k \in 1..Len(last.acts) :
          /\ last.acts[k].ev = "set"
          /\ Len(last.acts[k].path) = 4
          /\ \E j \in 1..(k - 1) :
                last.acts[j].ev = "set" /\ Len(last.acts[j].path) = 2

-----------------------------------------------------------------------------
(* C2: a runtime error raised by the visit of rule k on row r is caught:    *)
(* one warning for (k, r) is printed and the row loop goes on with row r+1  *)
(* of the same rule; when execute returns, every rule has been visited on   *)
(* every row, whatever warnings were printed.                               *)
C2_ErrorIsPerRow ==
    /\ last.raised =>
          /\ warnings # <<>>
          /\ warnings[Len(warnings)] = <<last.rule, last.row>>
    /\ last.rule # 0 =>
          /\ pc \in {"rows", "rules", "done"}
          /\ pc = "rows" =>
                \/ ri = last.rule /\ wi = last.row + 1
                \/ ri = last.rule + 1 /\ wi = 1 /\ last.row = Len(rows)
    /\ Range(warnings) \subseteq Range(visits)
    /\ pc = "done" =>
          /\ \A k \in 1..Len(ast) : \A r \in 1..Len(rows) : <<k, r>> \in Range(visits)
          /\ Len(visits) = Len(ast) * Len(rows)

\* execute has returned after a warning for a rule that is not the last one
\* on a row that is not the last one
C2_Witness ==
    /\ pc = "done"
    /\ \E k \in 1..Len(warnings) :
          warnings[k][1] < Len(ast) /\ warnings[k][2] < Len(rows)

-----------------------------------------------------------------------------
(* C3, as claimed: the value written by SET t = COUNT WHERE c is the number *)
(* of rows on which c is truthy in the table as it is when that SET runs.   *)
C3_Original ==
    \A k \in 1..Len(last.acts) :
       (last.acts[k].ev = "set" /\ last.acts[k].from_count) =>
          last.acts[k].value =
             Num(TruthyCount(last.acts[k - 1].condition, last.acts[k - 1].table))

(* C3, amended: the value written by SET t = COUNT WHERE c is the number of *)
(* rows of the whole table on which c is truthy in the table as it was when *)
(* that COUNT node was scanned, which is the first time the node was        *)
(* evaluated during the current top-level rule; only on that first          *)
(* evaluation is this the table as it is when the SET runs.                 *)
C3_CountOfScannedTable ==
    \A k \in 1..Len(last.acts) :
       (last.acts[k].ev = "set" /\ last.acts[k].from_count) =>
          LET c == last.acts[k - 1]
          IN /\ c.ev = "count"
             /\ last.acts[k].value = Num(c.val)
             /\ c.val = TruthyCount(c.condition, c.scanned)
             /\ ~c.hit => c.scanned = c.table
             /\ (\A h \in (k + 1)..Len(last.acts) :
                    ~(last.acts[h].ev = "set"
                      /\ last.acts[h].target = last.acts[k].target))
                => rows[last.row][last.acts[k].target] = Num(c.val)

\* a SET wrote a memoised count that is no longer the count of the table
C3_Witness ==
    \E k \in 1..Len(last.acts) :
       /\ last.acts[k].ev = "set"
       /\ last.acts[k].from_count
       /\ last.acts[k - 1].hit
       /\ last.acts[k - 1].val > 0
       /\ last.acts[k - 1].val #
             TruthyCount(last.acts[k - 1].condition, last.acts[k - 1].table)
       /\ rows[last.row][last.acts[k].target] = Num(last.acts[k - 1].val)

-----------------------------------------------------------------------------
RECURSIVE CountNodes(_)
\* the COUNT nodes of an action list, nested rules included
CountNodes(actions) ==
    IF actions = <<>> THEN {}
    ELSE LET a == Head(actions)
         IN (CASE a.type = "RuleNode" ->
                    CountNodes(a.then_actions) \cup CountNodes(a.else_actions)
               [] a.type = "SetActionNode" ->
                    IF a.value_node.type = "CountNode" THEN {a.value_node} ELSE {})
            \cup CountNodes(Tail(actions))

RuleIsProcessed == pc = "rows" /\ wi > Len(rows)

(* C4, as claimed: once a top-level rule has been processed over all rows,  *)
(* the number of full-table scans made equals the number of distinct COUNT  *)
(* conditions of that rule, a condition used by several SETs counting once. *)
C4_Original ==
    RuleIsProcessed =>
       Len(scans) = Cardinality({c.condition : c \in CountNodes(<<ast[ri]>>)})

(* C4, amended: while a top-level rule is processed over all rows, the      *)
(* full-table scans made are one for each COUNT node of that rule that has  *)
(* been evaluated on at least one row: a node is scanned once however many  *)
(* rows evaluate it, a node no row reaches is not scanned, and two SETs     *)
(* with the same COUNT condition are two nodes, each scanned on its own.    *)
C4_OneScanPerEvaluatedNode ==
    pc = "rows" =>
       /\ \A j, k \in 1..Len(scans) : scans[j] = scans[k] => j = k
       /\ Range(scans) = asked
       /\ asked = DOMAIN count_cache
       /\ asked \subseteq {c.key : c \in CountNodes(<<ast[ri]>>)}
       /\ RuleIsProcessed => Len(scans) = Cardinality(asked)

\* a rule with two COUNT nodes has been processed over two rows, both nodes
\* were scanned, and the latest row was answered from the memo
C4_Witness ==
    /\ RuleIsProcessed
    /\ Len(rows) = 2
    /\ Len(scans) = 2
    /\ \E k \in 1..Len(last.acts) : last.acts[k].ev = "count" /\ last.acts[k].hit

-----------------------------------------------------------------------------
\* whether an operand of a comparison reads as null in a row
OperandIsNull(node, row) ==
    IF node.type = "IdentifierNode" THEN row[node.name] \in {Null, Absent}
    ELSE node.token_type = "NULL"

VisitedRule == ast[last.rule]

(* C5: every comparison evaluated with a null left or right operand, under  *)
(* any of the six operators and whatever the other operand is, yields false *)
(* and raises nothing; a rule whose condition is such a comparison is not   *)
(* abandoned and runs its ELSE block.                                       *)
C5_NullComparesFalse ==
    /\ \A k \in 1..Len(last.acts) :
          (last.acts[k].ev = "cmp" /\ (isna(last.acts[k].l) \/ isna(last.acts[k].r)))
          => (~last.acts[k].err /\ last.acts[k].val = FALSE)
    /\ (/\ last.rule # 0
        /\ VisitedRule.condition.type = "ComparisonNode"
        /\ \/ OperandIsNull(VisitedRule.condition.left_identifier,
                            last.pre[last.row])
           \/ OperandIsNull(VisitedRule.condition.right_value, last.pre[last.row]))
       => /\ ~last.raised
          /\ VisitedRule.has_else =>
                (TopActions # <<>> /\ TopActions[1].path = <<2, 1>>)

\* an ordering comparison of a string on the left with null on the right,
\* which would be a type mismatch were the right operand not null
C5_Witness ==
    \E k \in 1..Len(last.acts) :
       /\ last.acts[k].ev = "cmp"
       /\ last.acts[k].op = "GT"
       /\ last.acts[k].l = Str(1)
       /\ isna(last.acts[k].r)
       /\ last.acts[k].val = FALSE
       /\ ~last.raised

-----------------------------------------------------------------------------
\* the visited rule's condition is AND/OR, its left operand alone decides it
\* on the visited row, and its right operand would raise on that row
ShortCircuitHidesError(op) ==
    /\ last.rule # 0
    /\ VisitedRule.condition.type = "BinaryOpNode"
    /\ VisitedRule.condition.op = op
    /\ LET l == EvalOn(VisitedRule.condition.left, last.pre, last.row)
           r == visit(VisitedRule.condition.right, l.m, last.row, <<>>)
       IN /\ ~l.err
          /\ l.val = (op = "OR")
          /\ r.err

(* C6: AND with a falsy left operand returns false and OR with a truthy     *)
(* left operand returns true, in both cases without visiting the right      *)
(* operand; when that right operand would raise a type mismatch no          *)
(* comparison raises, no warning is printed and the rule goes on into the   *)
(* branch the result selects.                                               *)
C6_ShortCircuit ==
    /\ \A k \in 1..Len(last.acts) :
          LET e == last.acts[k]
          IN e.ev = "binop" =>
                /\ (e.op = "AND" /\ ~e.left) =>
                      (~e.right_visited /\ ~e.err /\ e.val = FALSE)
                /\ (e.op = "OR" /\ e.left) =>
                      (~e.right_visited /\ ~e.err /\ e.val = TRUE)
    /\ \A op \in {"AND", "OR"} :
          ShortCircuitHidesError(op) =>
             /\ ~last.raised
             /\ <<last.rule, last.row>> \notin Range(warnings)
             /\ \A k \in 1..Len(last.acts) :
                   last.acts[k].ev = "cmp" => ~last.acts[k].err
             /\ IF op = "AND" /\ ~VisitedRule.has_else
                THEN Len(TopActions) = 0
                ELSE /\ Len(TopActions) > 0
                     /\ TopActions[1].path = <<IF op = "AND" THEN 2 ELSE 1, 1>>

\* AND was decided by a falsy left operand on a row where the right operand
\* would have raised
C6_Witness ==
    /\ ShortCircuitHidesError("AND")
    /\ rows[last.row]["f"] = Bool(FALSE)

-----------------------------------------------------------------------------
\* the latest visit ran a SET of field c
SetOn(c) ==
    \E k \in 1..Len(last.acts) :
       /\ last.acts[k].ev = "set"
       /\ last.acts[k].row = last.row
       /\ last.acts[k].target = c

(* C11: the rows execute works on and returns are the rows of the input     *)
(* table, one for one and in the same positions, also when visits raise: a  *)
(* (rule, row) visit changes neither the number of rows nor any field of    *)
(* another row (beyond creating a field bound to null), it changes the      *)
(* visited row only at the fields it SETs or creates, and the returned      *)
(* DataFrame has one row per input row, with the input row's value in the   *)
(* column no rule assigns.                                                   *)
C11_RowsKeepPosition ==
    /\ pc \in {"rules", "rows", "done"} => Len(rows) = Len(data)
    /\ last.rule # 0 =>
          /\ Len(rows) = Len(last.pre)
          /\ \A j \in 1..Len(rows) : \A c \in FieldNames :
                rows[j][c] # last.pre[j][c] =>
                   \/ j = last.row /\ SetOn(c)
                   \/ last.pre[j][c] = Absent /\ rows[j][c] = Null
    /\ pc = "done" =>
          /\ Len(results_df) = Len(data)
          /\ \A j \in 1..Len(data) :
                /\ results_df[j]["w"] = data[j]["w"]
                /\ \A c \in FieldNames :
                      \/ results_df[j][c] = rows[j][c]
                      \/ rows[j][c] = Absent /\ results_df[j][c] = Null

\* execute returned two different rows in their input positions: the first
\* raised and has null in the column the second row's SET created
C11_Witness ==
    /\ pc = "done"
    /\ Len(data) = 2
    /\ data[1]["w"] # data[2]["w"]
    /\ <<1, 1>> \in Range(warnings)
    /\ rows[1]["f"] = Absent
    /\ results_df[1]["f"] = Null
    /\ results_df[2]["f"] = Bool(TRUE)

-----------------------------------------------------------------------------
RECURSIVE ExecuteFrom(_, _, _, _, _)
\* the loops of execute from rule r and row w on: the final rows and the
\* (rule, row) pairs that printed a warning
ExecuteFrom(script, m, r, w, warned) ==
    IF r > Len(script) THEN [rows |-> m.rows, warnings |-> warned]
    ELSE IF w > Len(m.rows)
    THEN ExecuteFrom(script, Scratch(m.rows), r + 1, 1, warned)
    ELSE LET v == visit(script[r], [m EXCEPT !.acts = <<>>], w, <<>>)
         IN ExecuteFrom(script, v.m, r, w + 1,
                        IF v.err THEN Append(warned, <<r, w>>) ELSE warned)

\* execute as a function of the script and the table
Execute(script, table) == ExecuteFrom(script, Scratch(table), 1, 1, <<>>)

Reorderings(n) ==
    {p \in [1..n -> 1..n] : \A a, b \in 1..n : p[a] = p[b] => a = b}

Permuted(table, p) == [j \in 1..Len(table) |-> table[p[j]]]

(* C12: under a script without COUNT the final content of a row and the     *)
(* warnings printed for it depend only on the row's initial content and the *)
(* script: they are what execute gives on the table made of that row alone, *)
(* and in any reordering of the table every row ends with the same fields   *)
(* and the same warnings as in the original order.                          *)
C12_RowsAreIndependent ==
    (pc = "done" /\ CountNodes(ast) = {}) =>
       /\ Execute(ast, data).rows = rows
       /\ Execute(ast, data).warnings = warnings
       /\ \A j \in 1..Len(data) :
             LET alone == Execute(ast, <<data[j]>>)
             IN /\ alone.rows[1] = rows[j]
                /\ \A r \in 1..Len(ast) :
                      <<r, 1>> \in Range(alone.warnings)
                         <=> <<r, j>> \in Range(warnings)
       /\ \A p \in Reorderings(Len(data)) :
             LET out == Execute(ast, Permuted(data, p))
             IN \A j \in 1..Len(data) :
                   /\ out.rows[j] = rows[p[j]]
                   /\ \A r \in 1..Len(ast) :
                         <<r, j>> \in Range(out.warnings)
                            <=> <<r, p[j]>> \in Range(warnings)

\* a script without COUNT has run on two different rows, the first of which
\* raised while the second was assigned; run in the other order the rows
\* end the same, each in its new position
C12_Witness ==
    /\ pc = "done"
    /\ CountNodes(ast) = {}
    /\ Len(data) = 2
    /\ data[1] # data[2]
    /\ warnings = <<<<1, 1>>>>
    /\ rows[2]["f"] = Bool(TRUE)
    /\ LET out == Execute(ast, <<data[2], data[1]>>)
       IN /\ out.rows[1]["f"] = Bool(TRUE)
          /\ out.warnings = <<<<1, 2>>>>

-----------------------------------------------------------------------------
\* the condition of the visited rule, evaluated on the visited row as it was
\* when the visit began
VisitedCondition == EvalOn(VisitedRule.condition, last.pre, last.row)

\* the started actions of the visited rule's own blocks are the first ones
\* of block b, in order, and all of them unless the visit raised
RanBlock(b) ==
    /\ \A k \in 1..Len(TopActions) : TopActions[k].path = <<b, k>>
    /\ Len(TopActions) <= Len(BranchOf(VisitedRule, b))
    /\ ~last.raised => Len(TopActions) = Len(BranchOf(VisitedRule, b))
    /\ Len(TopActions) > 0

(* C13: when the condition of a rule evaluates without error, a rule with   *)
(* ELSE runs exactly one of its blocks, THEN if the condition is truthy and *)
(* ELSE otherwise; a rule without ELSE whose condition is falsy runs no     *)
(* action, assigns no field and raises nothing.                             *)
C13_OneBranch ==
    (last.rule # 0 /\ ~VisitedCondition.err) =>
       IF VisitedCondition.val THEN RanBlock(1)
       ELSE IF VisitedRule.has_else THEN RanBlock(2)
       ELSE /\ \A k \in 1..Len(ActionEvents) : Len(ActionEvents[k].path) = 0
            /\ \A c \in FieldNames : ~SetOn(c)
            /\ ~last.raised
            /\ \A j \in 1..Len(rows) : \A c \in FieldNames :
                  \/ rows[j][c] = last.pre[j][c]
                  \/ last.pre[j][c] = Absent /\ rows[j][c] = Null

\* a rule with ELSE was visited on a row where its condition is falsy: its
\* ELSE block ran, its THEN block did not
C13_Witness ==
    /\ last.rule # 0
    /\ VisitedRule.has_else
    /\ ~VisitedCondition.err
    /\ ~VisitedCondition.val
    /\ Len(TopActions) = 1
    /\ TopActions[1].path = <<2, 1>>
    /\ TopActions[1].ev = "set"
    /\ rows[last.row][TopActions[1].target] = TopActions[1].value

-----------------------------------------------------------------------------
\* between events k and h of the latest visit no SET assigned the field that
\* event k read
NotSetBetween(k, h) ==
    \A g \in (k + 1)..(h - 1) :
       ~(/\ last.acts[g].ev = "set"
         /\ last.acts[g].row = last.acts[k].row
         /\ last.acts[g].target = last.acts[k].name)

\* events k and h are reads of one field of one row, k before h
SameRead(k, h) ==
    /\ k < h
    /\ last.acts[k].ev = "read"
    /\ last.acts[h].ev = "read"
    /\ last.acts[h].row = last.acts[k].row
    /\ last.acts[h].name = last.acts[k].name

(* C14: a read of a field that is absent from the row returns null and      *)
(* leaves the row with that field bound to null and every other field as it *)
(* was; a read of a present field returns its value and changes nothing; a  *)
(* later read of a field that a read created, with no SET of it in between, *)
(* finds it present and returns null again.                                 *)
C14_ReadCreatesNull ==
    \A k \in 1..Len(last.acts) :
       LET e == last.acts[k]
       IN e.ev = "read" =>
             IF e.before[e.name] = Absent
             THEN /\ e.val = Null
                  /\ e.after = [e.before EXCEPT ![e.name] = Null]
                  /\ \A h \in 1..Len(last.acts) :
                        (SameRead(k, h) /\ NotSetBetween(k, h)) =>
                           /\ last.acts[h].before[e.name] = Null
                           /\ last.acts[h].val = Null
             ELSE /\ e.val = e.before[e.name]
                  /\ e.after = e.before

\* one condition read twice a field that the row did not have: the first
\* read created it, the second found it bound to null
C14_Witness ==
    \E k, h \in 1..Len(last.acts) :
       /\ SameRead(k, h)
       /\ NotSetBetween(k, h)
       /\ last.acts[k].row = last.row
       /\ last.acts[k].before[last.acts[k].name] = Absent
       /\ last.acts[h].val = Null
       /\ last.pre[last.row][last.acts[k].name] = Absent
       /\ last.acts[h].before[last.acts[k].name] = Null
       /\ last.acts[h].after = last.acts[k].after

-----------------------------------------------------------------------------
\* IF 'v' > 1 THEN SET f = TRUE, run on a table whose rows have a null v
Scenario3 ==
    /\ ast = <<If(Cmp("v", "GT", Lit(Num(1))), <<SetLit("f", Bool(TRUE))>>)>>
    /\ pc = "done"
    /\ Len(data) > 0
    /\ \A j \in 1..Len(data) : data[j]["v"] = Null

(* C15, as claimed: after the rule IF 'v' > 1 THEN SET f = TRUE has run on  *)
(* a row whose v is null, the row has v null and the SET target f present,  *)
(* bound to null.                                                           *)
C15_Original ==
    Scenario3 =>
       \A j \in 1..Len(rows) : rows[j]["v"] = Null /\ rows[j]["f"] = Null

(* C15, amended: after the rule IF 'v' > 1 THEN SET f = TRUE has run on a   *)
(* row whose v is null, v is still null and the SET target f is not a field *)
(* of the row: the condition reads only v, the SET does not run, the        *)
(* returned DataFrame has no column f, and no warning is printed.           *)
C15_TargetStaysAbsent ==
    Scenario3 =>
       /\ \A j \in 1..Len(rows) :
             /\ rows[j]["v"] = Null
             /\ rows[j]["f"] = Absent
             /\ results_df[j]["f"] = Absent
             /\ results_df[j]["v"] = Null
       /\ warnings = <<>>

\* the scenario: one row, its v null, visited by the rule and returned
C15_Witness ==
    /\ Scenario3
    /\ Len(data) = 1
    /\ visits = <<<<1, 1>>>>
    /\ \E k \in 1..Len(last.acts) :
          /\ last.acts[k].ev = "cmp"
          /\ last.acts[k].l = Null
          /\ last.acts[k].val = FALSE
    /\ rows[1]["f"] = Absent

-----------------------------------------------------------------------------
\* the rows of a table on which a condition raises
RaisingRows(condition, table) ==
    {j \in 1..Len(table) : EvalOn(condition, table, j).err}

\* event k of the latest visit is a full-table scan of a COUNT node whose
\* condition raised on some row
ScanWithError(k) ==
    /\ last.acts[k].ev = "count"
    /\ ~last.acts[k].hit
    /\ RaisingRows(last.acts[k].condition, last.acts[k].scanned) # {}

(* C16: an error raised by the condition of a COUNT on a row of the scan is *)
(* swallowed: the count is the number of rows on which the condition is     *)
(* truthy, the raising rows adding nothing and the rows after them still    *)
(* being tested, the SET that holds the COUNT assigns that count, the visit *)
(* is not abandoned and prints no warning.                                  *)
C16_CountSwallowsErrors ==
    \A k \in 1..Len(last.acts) :
       ScanWithError(k) =>
          LET e == last.acts[k]
          IN /\ e.val = TruthyCount(e.condition, e.scanned)
             /\ e.val <= Len(e.scanned)
                         - Cardinality(RaisingRows(e.condition, e.scanned))
             /\ k < Len(last.acts)
             /\ last.acts[k + 1].ev = "set"
             /\ last.acts[k + 1].from_count
             /\ last.acts[k + 1].value = Num(e.val)
             /\ rows[last.row][last.acts[k + 1].target] = Num(e.val)
             /\ ~last.raised
             /\ <<last.rule, last.row>> \notin Range(warnings)

\* a scan met a row on which the condition raises before a row on which it
\* is truthy: the count is 1 and was assigned
C16_Witness ==
    \E k \in 1..Len(last.acts) :
       /\ ScanWithError(k)
       /\ Len(last.acts[k].scanned) = 2
       /\ RaisingRows(last.acts[k].condition, last.acts[k].scanned) = {1}
       /\ last.acts[k].val = 1
       /\ rows[last.row]["n"] = Num(1)
       /\ warnings = <<>>

-----------------------------------------------------------------------------
\* a step of the row loop of one rule: every COUNT node the visit evaluated
\* returned the integer the memo held for it before the visit, if it held
\* one, and the memo holds what it returned; no entry of the memo changed
MemoStep ==
    (pc = "rows" /\ pc' = "rows") =>
       /\ \A k \in DOMAIN count_cache :
             k \in DOMAIN count_cache' /\ count_cache'[k] = count_cache[k]
       /\ \A k \in 1..Len(last'.acts) :
             LET e == last'.acts[k]
             IN e.ev = "count" =>
                   /\ e.key \in DOMAIN count_cache'
                   /\ count_cache'[e.key] = e.val
                   /\ e.hit <=> e.key \in DOMAIN count_cache
                   /\ k < Len(last'.acts)
                   /\ last'.acts[k + 1].ev = "set"
                   /\ last'.acts[k + 1].value = Num(e.val)

\* entering the row loop of a rule empties the memo
MemoReset == (pc = "rules" /\ pc' = "rows") => DOMAIN count_cache' = {}

(* C19: within one top-level rule every row that executes a given           *)
(* SET t = COUNT WHERE c is assigned the same integer, the count made when  *)
(* the first such row executed it, whatever SETs have changed in between in *)
(* the fields c reads; the memo is empty when the row loop of the next      *)
(* top-level rule begins.                                                   *)
C19_CountFixedWithinRule ==
    /\ []((pc = "rows" /\ wi = 1) => DOMAIN count_cache = {})
    /\ [][MemoStep /\ MemoReset]_vars

\* the second row was assigned the count made for the first row, 1, although
\* no row satisfies the condition any more when its SET runs
C19_Witness ==
    /\ pc = "rows"
    /\ last.row = 2
    /\ \E k \in 1..Len(last.acts) :
          /\ last.acts[k].ev = "count"
          /\ last.acts[k].hit
          /\ last.acts[k].val = 1
          /\ count_cache[last.acts[k].key] = 1
          /\ TruthyCount(last.acts[k].condition, last.acts[k].table) = 0
    /\ rows[1]["n"] = Num(1)
    /\ rows[2]["n"] = Num(1)

-----------------------------------------------------------------------------
\* event k of the latest visit is the comparison on the visited row that
\* raised
FailingPoint(k) ==
    /\ last.acts[k].ev = "cmp"
    /\ last.acts[k].row = last.row
    /\ last.acts[k].err

\* event k is the last SET of its target in the latest visit
LastSetOfTarget(k) ==
    /\ last.acts[k].ev = "set"
    /\ \A h \in (k + 1)..Len(last.acts) :
          ~(last.acts[h].ev = "set" /\ last.acts[h].target = last.acts[k].target)

(* C20: a visit that raises is abandoned without rolling anything back: the *)
(* row keeps the value of every SET that ran before the failing comparison  *)
(* and, bound to null, every field a read created; nothing runs after the   *)
(* failing comparison, so every field that was neither set nor read is as   *)
(* it was before the visit; the warning is printed.                         *)
C20_NoRollback ==
    last.raised =>
       /\ \E k \in 1..Len(last.acts) :
             /\ FailingPoint(k)
             /\ \A h \in (k + 1)..Len(last.acts) : last.acts[h].ev = "binop"
       /\ \A k \in 1..Len(last.acts) :
             LastSetOfTarget(k) =>
                rows[last.row][last.acts[k].target] = last.acts[k].value
       /\ \A k \in 1..Len(last.acts) :
             (last.acts[k].ev = "read" /\ last.acts[k].row = last.row) =>
                /\ rows[last.row][last.acts[k].name] # Absent
                /\ (last.pre[last.row][last.acts[k].name] = Absent
                    /\ ~SetOn(last.acts[k].name))
                   => rows[last.row][last.acts[k].name] = Null
       /\ \A c \in FieldNames :
             (~SetOn(c) /\ rows[last.row][c] # last.pre[last.row][c]) =>
                /\ last.pre[last.row][c] = Absent
                /\ rows[last.row][c] = Null
       /\ <<last.rule, last.row>> \in Range(warnings)

\* the nested rule's condition raised after SET f = 1 had run: f is in the
\* row with that value, the nested rule's own SET of n did not run
C20_Witness ==
    /\ last.raised
    /\ last.pre[last.row]["f"] = Absent
    /\ \E k \in 1..Len(last.acts) :
          /\ LastSetOfTarget(k)
          /\ last.acts[k].target = "f"
          /\ last.acts[k].value = Num(1)
          /\ \E h \in (k + 1)..Len(last.acts) : FailingPoint(h)
    /\ rows[last.row]["f"] = Num(1)
    /\ rows[last.row]["n"] = Absent

-----------------------------------------------------------------------------
\* the fields that evaluating a condition on row j of a table reads
ReadBy(condition, table, j) ==
    LET acts == EvalOn(condition, table, j).m.acts
    IN {acts[k].name : k \in {h \in 1..Len(acts) : acts[h].ev = "read"}}

(* C21: evaluating a COUNT changes no field that a row already has, in any  *)
(* row; a scan leaves bound to null, in every row of the table, the fields  *)
(* that its condition read there and the row did not have, also in rows     *)
(* other than the one being processed and in rows where the condition       *)
(* raised; it creates no other field, and a COUNT answered from the memo    *)
(* changes nothing.                                                         *)
C21_CountOnlyCreatesNulls ==
    \A k \in 1..Len(last.acts) :
       LET e == last.acts[k]
       IN e.ev = "count" =>
             /\ Len(e.after) = Len(e.table)
             /\ e.hit => e.after = e.table
             /\ \A j \in 1..Len(e.table) : \A c \in FieldNames :
                   IF e.table[j][c] # Absent
                   THEN e.after[j][c] = e.table[j][c]
                   ELSE IF ~e.hit /\ c \in ReadBy(e.condition, e.table, j)
                   THEN e.after[j][c] = Null
                   ELSE e.after[j][c] = Absent

\* while the first row was processed, the scan of a COUNT created a field
\* in the second row, on which the condition then raised; the field is in
\* that row after the visit
C21_Witness ==
    /\ last.row = 1
    /\ Len(rows) = 2
    /\ ~last.raised
    /\ \E k \in 1..Len(last.acts) :
          /\ last.acts[k].ev = "count"
          /\ ~last.acts[k].hit
          /\ last.acts[k].table[2]["f"] = Absent
          /\ last.acts[k].after[2]["f"] = Null
          /\ EvalOn(last.acts[k].condition, last.acts[k].table, 2).err
    /\ last.pre[2]["f"] = Absent
    /\ rows[2]["f"] = Null

-----------------------------------------------------------------------------
(* Helpers of the parser properties *)

\* Parser.parse has returned a script
Returned == stage = "parsed" /\ result.err = ""

SameTokens(s, t) ==
    /\ Len(s) = Len(t)
    /\ \A k \in 1..Len(s) : s[k].type = t[k].type /\ s[k].value = t[k].value

\* the text, as tokenized: the phrases and the EOF token
Text(phrases) ==
    LET RECURSIVE Join(_)
        Join(q) == IF q = <<>> THEN <<>> ELSE Head(q) \o Join(Tail(q))
    IN Join(phrases) \o <<EOFToken>>

\* the number of rules, nested ones included, in a list of actions
RECURSIVE RuleCount(_)

RuleCount(actions) ==
    IF Len(actions) = 0 THEN 0
    ELSE LET a == Head(actions) IN
         (IF a.type = "RuleNode"
          THEN 1 + RuleCount(a.then_actions) + RuleCount(a.else_actions)
          ELSE 0) + RuleCount(Tail(actions))

\* the IF tokens and the rules of the script correspond in source order: the
\* n-th IF token opens the n-th rule in pre-order
IfOrdinal(p) == Cardinality({q \in 1..p : tokens[q].type = "IF"})

TopLevelOrdinals ==
    {1 + RuleCount(SubSeq(result.node, 1, m - 1)) : m \in 1..Len(result.node)}

\* the IF tokens that come after the last token of an action and two or more
\* NEWLINE tokens
BlankLineIfs ==
    {p \in 1..Len(tokens) :
        /\ tokens[p].type = "IF"
        /\ \E q \in 1..(p - 3) :
              /\ tokens[q].type \notin {"NEWLINE", "THEN", "ELSE"}
              /\ \A k \in (q + 1)..(p - 1) : tokens[k].type = "NEWLINE"}

(* C7, as claimed: in a script the parser accepts, every IF that follows an *)
(* action (a SET or a nested rule) and two or more NEWLINE tokens ends the  *)
(* action list there and is the next top-level rule of the script, not an   *)
(* action of the current rule.                                              *)
C7_Original ==
    Returned => \A p \in BlankLineIfs : IfOrdinal(p) \in TopLevelOrdinals

-----------------------------------------------------------------------------
SameRight(a, b) ==
    /\ a.type = b.type
    /\ IF a.type = "IdentifierNode" THEN a.name = b.name
       ELSE a.token_type = b.token_type /\ a.value = b.value

\* the comparison left op right occurs in the rule, action or condition node
RECURSIVE HasComparison(_, _, _, _)

HasComparison(node, left, op, right) ==
    CASE node.type = "ComparisonNode" ->
            /\ node.left_identifier.type = "IdentifierNode"
            /\ node.left_identifier.name = left
            /\ node.op = op
            /\ SameRight(node.right_value, right)
      [] node.type = "BinaryOpNode" ->
            \/ HasComparison(node.left, left, op, right)
            \/ HasComparison(node.right, left, op, right)
      [] node.type = "UnaryOpNode" -> HasComparison(node.operand, left, op, right)
      [] node.type = "RuleNode" ->
            \/ HasComparison(node.condition, left, op, right)
            \/ \E k \in DOMAIN node.then_actions :
                  HasComparison(node.then_actions[k], left, op, right)
            \/ \E k \in DOMAIN node.else_actions :
                  HasComparison(node.else_actions[k], left, op, right)
      [] node.type = "SetActionNode" ->
            HasComparison(node.value_node, left, op, right)
      [] node.type = "CountNode" -> HasComparison(node.condition, left, op, right)
      [] OTHER -> FALSE

\* the right-hand value a token stands for
RightValue(token) ==
    IF token.type = "IDENTIFIER" THEN [type |-> "IdentifierNode", name |-> token.value]
    ELSE [type |-> "ValueNode", token_type |-> token.type, value |-> token.value]

\* the positions just after a comparison operator the parser has read
AfterOperator ==
    {p \in 2..Len(tokens) :
        /\ tokens[p - 1].type \in {"GT", "LT", "GTE", "LTE", "EQ", "NEQ"}
        /\ result.err = "" \/ result.pos >= p}

\* the token kinds in accepted are the right-hand sides of a comparison, and
\* no other kind is
RightHandSides(accepted) ==
    stage = "parsed" =>
        \A p \in AfterOperator :
            IF tokens[p].type \in accepted
            THEN /\ ~(result.err # "" /\ result.pos = p)
                 /\ result.err = "" =>
                        \E k \in DOMAIN result.node :
                            HasComparison(result.node[k], tokens[p - 2].value,
                                          tokens[p - 1].type, RightValue(tokens[p]))
            ELSE result.err = "ParserError" /\ result.pos = p

(* C8, as claimed: after a comparison operator the parser accepts a number, *)
(* a string, a boolean, NULL or an identifier and builds the comparison     *)
(* node with that right-hand value; any other token there is a parse error. *)
C8_Original ==
    RightHandSides({"NUMBER", "STRING", "BOOLEAN", "NULL", "IDENTIFIER"})

(* C8, amended: after a comparison operator the parser accepts a number, a  *)
(* string, a boolean or an identifier and builds the comparison node with   *)
(* that right-hand value; any other token there, NULL included, is a parse  *)
(* error raised at that token.                                              *)
C8_RightHandValues ==
    RightHandSides({"NUMBER", "STRING", "BOOLEAN", "IDENTIFIER"})

\* IF 'a' <op> NULL has been parsed and rejected at the NULL token
C8_Witness ==
    /\ stage = "parsed"
    /\ \E p \in AfterOperator : tokens[p].type = "NULL"
    /\ result.err = "ParserError"
    /\ result.msg = "Expected value after operator"

-----------------------------------------------------------------------------
\* the token a right-hand value was built from
RightToken(node) ==
    IF node.type = "IdentifierNode" THEN Ident(node.name)
    ELSE Token(node.token_type, node.value)

\* the condition written back as tokens, with parentheses around every AND
\* and OR when grouped and without any otherwise
RECURSIVE Unparse(_, _)

Unparse(node, grouped) ==
    CASE node.type = "ComparisonNode" ->
            <<Ident(node.left_identifier.name), Punct(node.op),
              RightToken(node.right_value)>>
      [] node.type = "IsNullNode" ->
            <<Ident(node.identifier.name), Keyword("IS")>>
            \o (IF node.is_not THEN <<Keyword("NOT")>> ELSE <<>>)
            \o <<Keyword("NULL")>>
      [] node.type = "UnaryOpNode" ->
            <<Keyword(node.op)>> \o Unparse(node.operand, grouped)
      [] node.type = "BinaryOpNode" ->
            (IF grouped THEN <<Punct("LPAREN")>> ELSE <<>>)
            \o Unparse(node.left, grouped) \o <<Keyword(node.op)>>
            \o Unparse(node.right, grouped)
            \o (IF grouped THEN <<Punct("RPAREN")>> ELSE <<>>)

\* no AND / OR is the right operand of an AND / OR or the operand of a NOT
RECURSIVE LeftDeep(_)

LeftDeep(node) ==
    CASE node.type = "BinaryOpNode" ->
            /\ node.right.type # "BinaryOpNode"
            /\ LeftDeep(node.left)
            /\ LeftDeep(node.right)
      [] node.type = "UnaryOpNode" ->
            node.operand.type # "BinaryOpNode" /\ LeftDeep(node.operand)
      [] OTHER -> TRUE

NotParen(token) == token.type \notin {"LPAREN", "RPAREN"}

\* the tokens of the condition of the first rule, parentheses left out
ConditionTokens ==
    LET then_at == CHOOSE p \in 1..Len(tokens) :
                       /\ tokens[p].type = "THEN"
                       /\ \A q \in 1..(p - 1) : tokens[q].type # "THEN"
    IN SelectSeq(SubSeq(tokens, 2, then_at - 1), NotParen)

And == <<Keyword("AND")>>
Or == <<Keyword("OR")>>
Open == <<Punct("LPAREN")>>
Close == <<Punct("RPAREN")>>

\* the text IF condition THEN SET 'x' = 1
IfCondition(phrases) == Text(<<<<Keyword("IF")>>>> \o phrases \o <<ThenSet>>)

(* C9: AND and OR are combined by one left-associative loop without any     *)
(* precedence: the condition of an accepted rule reads back, operand by     *)
(* operand and operator by operator, as the tokens it was parsed from, and, *)
(* when the text has no parentheses, no AND / OR is the right operand of    *)
(* another or the operand of a NOT, so e1 op1 e2 op2 e3 is                  *)
(* ((e1 op1 e2) op2 e3); A AND B OR C is Or(And(A, B), C), and A OR B AND C *)
(* is And(Or(A, B), C), as is (A OR B) AND C.                               *)
C9_LeftAssociative ==
    Returned /\ source = "condition" =>
        LET c == result.node[1].condition
            groups == Unparse(c, TRUE)
        IN /\ SameTokens(Unparse(c, FALSE), ConditionTokens)
           /\ (\A p \in 1..Len(tokens) : NotParen(tokens[p])) => LeftDeep(c)
           /\ SameTokens(tokens, IfCondition(<<AtomA, And, AtomB, Or, AtomC>>)) =>
                 SameTokens(groups, Open \o Open \o AtomA \o And \o AtomB \o Close
                                    \o Or \o AtomC \o Close)
           /\ \/ SameTokens(tokens, IfCondition(<<AtomA, Or, AtomB, And, AtomC>>))
              \/ SameTokens(tokens,
                            IfCondition(<<Open, AtomA, Or, AtomB, Close, And, AtomC>>))
              => SameTokens(groups, Open \o Open \o AtomA \o Or \o AtomB \o Close
                                    \o And \o AtomC \o Close)

\* IF 'a' > 1 AND 'b' IS NULL OR 'c' == "s" THEN SET 'x' = 1 has been parsed
C9_Witness ==
    /\ Returned
    /\ source = "condition"
    /\ SameTokens(tokens, IfCondition(<<AtomA, And, AtomB, Or, AtomC>>))
    /\ result.node[1].condition.type = "BinaryOpNode"
    /\ result.node[1].condition.op = "OR"

-----------------------------------------------------------------------------
\* a condition: comparisons with an identifier on the left and IS NULL
\* tests, combined by AND, OR and NOT, and nothing else
RECURSIVE WellFormedCondition(_)

WellFormedCondition(node) ==
    CASE node.type = "ComparisonNode" -> node.left_identifier.type = "IdentifierNode"
      [] node.type = "IsNullNode" -> node.identifier.type = "IdentifierNode"
      [] node.type = "UnaryOpNode" -> WellFormedCondition(node.operand)
      [] node.type = "BinaryOpNode" ->
            WellFormedCondition(node.left) /\ WellFormedCondition(node.right)
      [] OTHER -> FALSE

RECURSIVE WellFormedRule(_)

WellFormedAction(node) ==
    CASE node.type = "RuleNode" -> WellFormedRule(node)
      [] node.type = "SetActionNode" ->
            CASE node.value_node.type = "ValueNode" -> TRUE
              [] node.value_node.type = "CountNode" ->
                    WellFormedCondition(node.value_node.condition)
              [] OTHER -> FALSE
      [] OTHER -> FALSE

WellFormedRule(node) ==
    /\ node.type = "RuleNode"
    /\ WellFormedCondition(node.condition)
    /\ Len(node.then_actions) > 0
    /\ node.has_else => Len(node.else_actions) > 0
    /\ \A k \in DOMAIN node.then_actions : WellFormedAction(node.then_actions[k])
    /\ \A k \in DOMAIN node.else_actions : WellFormedAction(node.else_actions[k])

(* C10: every script returned by Parser.parse is well formed: it has at     *)
(* least one rule; every rule, top-level or nested, has a non-empty THEN    *)
(* list and, when it has an ELSE, a non-empty ELSE list; every comparison   *)
(* has an identifier as left operand; and a COUNT node is the right-hand    *)
(* side of a SET and never part of a condition.                             *)
C10_WellFormed ==
    Returned =>
        /\ Len(result.node) > 0
        /\ \A k \in DOMAIN result.node : WellFormedRule(result.node[k])

\* a script with an ELSE block, a nested rule and a SET ... = COUNT WHERE
\* has been returned
C10_Witness ==
    /\ Returned
    /\ \E k \in DOMAIN result.node :
          LET rule == result.node[k] IN
          /\ rule.has_else
          /\ \E j \in DOMAIN rule.then_actions :
                /\ rule.then_actions[j].type = "SetActionNode"
                /\ rule.then_actions[j].value_node.type = "CountNode"
          /\ \E j \in DOMAIN rule.else_actions : rule.else_actions[j].type = "RuleNode"

-----------------------------------------------------------------------------
\* the lexer state at the first character of what the latest call returned:
\* the state before the call, moved over spaces, tabs and comments
TokenStart == skip_whitespace(text, got.before)

\* the character at the start of the latest token and the one after it
FirstChar == current_char(text, TokenStart)
SecondChar == current_char(text, [TokenStart EXCEPT !.pos = @ + 1])

\* the token type of an operator character alone, and followed by '='
Alone(c) == CASE c = ">" -> "GT" [] c = "<" -> "LT" [] c = "=" -> "ASSIGN"
WithEquals(c) ==
    CASE c = ">" -> "GTE" [] c = "<" -> "LTE" [] c = "=" -> "EQ" [] c = "!" -> "NEQ"

\* tokens k and k + 1 were cut from adjacent characters of one line, the
\* first being one character long
Adjacent(k) ==
    /\ lexed[k + 1].line = lexed[k].line
    /\ lexed[k + 1].col = lexed[k].col + 1

(* C17: an operator is lexed with one character of lookahead, the longest   *)
(* match first: where a token starts with '>', '<', '=' or '!' and the next *)
(* character is '=', the two characters are one GTE, LTE, EQ or NEQ token;  *)
(* otherwise '>', '<' and '=' are the one-character tokens GT, LT and       *)
(* ASSIGN and '!' is a lexical error.  No '>', '<' or '=' token is ever     *)
(* directly followed by a token that begins with the '=' next to it.        *)
C17_GreedyOperators ==
    /\ (got.token.type # "none" /\ FirstChar \in {">", "<", "=", "!"}) =>
          IF SecondChar = "="
          THEN /\ ~got.raised
               /\ got.token.type = WithEquals(FirstChar)
               /\ got.token.value = Punct(WithEquals(FirstChar)).value
               /\ got.token.col = TokenStart.col
               /\ lexer.pos = TokenStart.pos + 2
               /\ lexed[Len(lexed)] = got.token
          ELSE IF FirstChar = "!"
          THEN /\ got.raised
               /\ got.token.type = "LexerError"
               /\ got.token.value = "Invalid character '!'"
               /\ lex_stage = "error"
          ELSE /\ ~got.raised
               /\ got.token.type = Alone(FirstChar)
               /\ got.token.value = FirstChar
               /\ lexer.pos = TokenStart.pos + 1
               /\ lexed[Len(lexed)] = got.token
    /\ \A k \in 1..(Len(lexed) - 1) :
          (lexed[k].type \in {"GT", "LT", "ASSIGN"} /\ Adjacent(k)) =>
             lexed[k + 1].type \notin {"ASSIGN", "EQ"}

\* the text <==> has been tokenized: LTE, ASSIGN, GT and EOF
C17_Witness ==
    /\ lex_stage = "done"
    /\ text = <<"<", "=", "=", ">">>
    /\ Len(lexed) = 4
    /\ lexed[1].type = "LTE"
    /\ lexed[2].type = "ASSIGN"
    /\ lexed[3].type = "GT"
    /\ lexed[4].type = "EOF"

-----------------------------------------------------------------------------
RECURSIVE Flatten(_, _)
RECURSIVE FlattenBlock(_, _, _, _)

\* the rules and SETs below a node in source order, each with its place in
\* the script: the m-th top-level rule is at <<0, m>>, the k-th action of
\* block b (1 THEN, 2 ELSE) of the rule at path is at path \o <<b, k>>
Flatten(node, path) ==
    IF node.type = "RuleNode"
    THEN <<[kind |-> "rule", path |-> path]>>
         \o FlattenBlock(node.then_actions, path, 1, 1)
         \o FlattenBlock(node.else_actions, path, 2, 1)
    ELSE <<[kind |-> "set", path |-> path]>>

FlattenBlock(actions, path, b, k) ==
    IF k > Len(actions) THEN <<>>
    ELSE Flatten(actions[k], path \o <<b, k>>)
         \o FlattenBlock(actions, path, b, k + 1)

IsRuleEntry(e) == e.kind = "rule"
IsSetEntry(e) == e.kind = "set"

\* the returned script flattened: a top-level block numbered 0
Placed == FlattenBlock(result.node, <<>>, 0, 1)

\* the place of the rule the IF token at p opens, and of the SET the latest
\* SET token before p opens
PlaceOfIf(p) == SelectSeq(Placed, IsRuleEntry)[IfOrdinal(p)].path
PlaceOfSetBefore(p) ==
    SelectSeq(Placed, IsSetEntry)
        [Cardinality({q \in 1..p : tokens[q].type = "SET"})].path

\* the IF tokens that come after the last token of an action and n NEWLINE
\* tokens
IfsAfterAction(n) ==
    {p \in (n + 2)..Len(tokens) :
        /\ tokens[p].type = "IF"
        /\ tokens[p - n - 1].type \notin {"NEWLINE", "THEN", "ELSE"}
        /\ \A k \in (p - n)..(p - 1) : tokens[k].type = "NEWLINE"}

\* the next place in the same block
NextPlace(path) == [path EXCEPT ![Len(path)] = @ + 1]

(* C18: in a script the parser accepts, an IF that follows an action of a   *)
(* nested rule, after no NEWLINE, one NEWLINE or a blank line, is parsed as *)
(* the next action of the same block of that nested rule: the blank line    *)
(* ends nothing inside a nested rule.                                       *)
C18_NestedRuleTakesEveryIf ==
    Returned =>
       \A n \in 0..Len(tokens) : \A p \in IfsAfterAction(n) :
          Len(PlaceOfSetBefore(p)) > 4 =>
             PlaceOfIf(p) = NextPlace(PlaceOfSetBefore(p))

\* IF..THEN IF..THEN SET, a blank line, IF..THEN SET: the third rule is the
\* second action of the nested rule's THEN block
C18_Witness ==
    /\ Returned
    /\ \E p \in IfsAfterAction(2) :
          /\ PlaceOfSetBefore(p) = <<0, 1, 1, 1, 1, 1>>
          /\ PlaceOfIf(p) = <<0, 1, 1, 1, 1, 2>>
    /\ Len(result.node) = 1
    /\ Len(result.node[1].then_actions[1].then_actions) = 2

-----------------------------------------------------------------------------
\* a parse method started at token p returns after consuming at least one
\* token and without passing the last token, or raises a ParserError at a
\* token of the list
StaysInside(r, p) ==
    /\ r.err \in {"", "ParserError"}
    /\ r.pos <= Len(tokens)
    /\ r.err = "" => r.pos > p

\* the token list ends with its only EOF token
EndsWithOneEOF ==
    /\ Len(tokens) > 0
    /\ \A p \in 1..Len(tokens) : tokens[p].type = "EOF" <=> p = Len(tokens)

(* C22: on a token list that ends with its only EOF token the parser never  *)
(* moves past the EOF token: parse returns the rules with the position at   *)
(* EOF or raises a ParserError at a token of the list, never an error of    *)
(* another kind; and every parse method, whichever token it starts at,      *)
(* either raises a ParserError or returns having consumed at least one      *)
(* token and none beyond EOF, so that every iteration of the rule, action   *)
(* and condition loops advances.                                            *)
C22_NeverPastEOF ==
    stage = "parsed" =>
       /\ EndsWithOneEOF
       /\ result.err \in {"", "ParserError"}
       /\ 1 <= result.pos /\ result.pos <= Len(tokens)
       /\ result.err = "" => (result.pos = Len(tokens) /\ Len(result.node) > 0)
       /\ \A p \in 1..Len(tokens) :
             /\ StaysInside(parse_rule(tokens, p, FALSE), p)
             /\ StaysInside(parse_rule(tokens, p, TRUE), p)
             /\ StaysInside(parse_action(tokens, p), p)
             /\ StaysInside(parse_count(tokens, p), p)
             /\ StaysInside(parse_condition(tokens, p), p)
             /\ StaysInside(parse_expression(tokens, p), p)
             /\ StaysInside(parse_atom(tokens, p), p)
             /\ p + newline_count(tokens, p) <= Len(tokens)

\* the text stops after the '=' of a SET: the parser raises a ParserError
\* at the EOF token
C22_Witness ==
    /\ stage = "parsed"
    /\ result.err = "ParserError"
    /\ result.pos = Len(tokens)
    /\ Len(tokens) > 1
    /\ tokens[Len(tokens) - 1].type = "ASSIGN"

-----------------------------------------------------------------------------
\* the ELSE tokens of the text
ElseTokens == {p \in 1..Len(tokens) : tokens[p].type = "ELSE"}

\* the rules still being parsed at a place that can take an ELSE, as the
\* indexes of their THEN steps in the place: the rules that have the place in
\* their THEN block (the top-level block, numbered 0, belongs to no rule)
OpenThenSteps(path) == {i \in 3..Len(path) : i % 2 = 1 /\ path[i] = 1}

Highest(S) == CHOOSE i \in S : \A j \in S : j <= i

\* the innermost of them
NearestOpenRule(path) == SubSeq(path, 1, Highest(OpenThenSteps(path)) - 1)

\* the place of the action that starts at token q
PlaceOfAction(q) ==
    IF tokens[q].type = "IF" THEN PlaceOfIf(q) ELSE PlaceOfSetBefore(q)

\* the first token of the block an ELSE token opens
AfterElse(p) == p + 1 + newline_count(tokens, p + 1)

\* IF 'a' > 1 THEN IF 'a' > 1 THEN SET 'x' = 1, n NEWLINEs, ELSE SET 'x' = 1
DanglingElse(n) ==
    IfThen \o IfThen \o SetX \o [k \in 1..n |-> NewlineToken]
    \o <<Keyword("ELSE")>> \o SetX \o <<EOFToken>>

(* C23: in a script the parser accepts, the block an ELSE opens is the ELSE *)
(* block of the innermost rule that has the action before the ELSE in its   *)
(* THEN block, whatever NEWLINEs stand before the ELSE.  For IF c1 THEN     *)
(* IF c2 THEN a ELSE b the ELSE block is the inner rule's and the outer     *)
(* rule has none.                                                           *)
C23_ElseBindsToNearestRule ==
    /\ Returned =>
          \A p \in ElseTokens :
             /\ OpenThenSteps(PlaceOfSetBefore(p)) # {}
             /\ PlaceOfAction(AfterElse(p))
                   = NearestOpenRule(PlaceOfSetBefore(p)) \o <<2, 1>>
    /\ \A n \in 0..MaxPhrases :
          (stage = "parsed" /\ tokens = DanglingElse(n)) =>
             /\ Returned
             /\ Len(result.node) = 1
             /\ ~result.node[1].has_else
             /\ Len(result.node[1].then_actions) = 1
             /\ result.node[1].then_actions[1].type = "RuleNode"
             /\ result.node[1].then_actions[1].has_else
             /\ Len(result.node[1].then_actions[1].then_actions) = 1
             /\ Len(result.node[1].then_actions[1].else_actions) = 1

\* IF c1 THEN IF c2 THEN a, a blank line, ELSE b: the ELSE block is the
\* inner rule's
C23_Witness ==
    /\ Returned
    /\ tokens = DanglingElse(2)
    /\ \E p \in ElseTokens :
          /\ PlaceOfSetBefore(p) = <<0, 1, 1, 1, 1, 1>>
          /\ PlaceOfAction(AfterElse(p)) = <<0, 1, 1, 1, 2, 1>>
    /\ ~result.node[1].has_else
    /\ result.node[1].then_actions[1].has_else

-----------------------------------------------------------------------------
\* the line and the column of the character that p characters of the text
\* precede, counted from 1
Newlines(p) == {k \in 1..p : text[k] = "\n"}
LineOf(p) == 1 + Cardinality(Newlines(p))
ColumnOf(p) == p + 1 - Highest(Newlines(p) \cup {0})

\* the latest call returned a token other than EOF or raised the error of
\* an unterminated quote
LexemeOrUnterminated ==
    /\ got.token.type \notin {"none", "EOF"}
    /\ got.raised => FirstChar \in {"'", "\""}

(* C24: every token other than EOF, and every LexerError of an unterminated *)
(* quote, carries the line and the column of the first character of its     *)
(* lexeme, the opening quote of a quoted string or identifier, also when    *)
(* the quoted text spans several lines.                                     *)
C24_Original ==
    LexemeOrUnterminated =>
       /\ got.token.line = LineOf(TokenStart.pos)
       /\ got.token.col = ColumnOf(TokenStart.pos)

====
